---- MODULE Spec2Model ----
(***************************************************************************)
(* PRig: the printer lifecycle of src/src/printer_test.py                  *)
(* (PrinterTestRig.test_printer and what it calls, and PrinterTestRig.run  *)
(* around it), the request handlers and the test threads of                *)
(* src/src/web_app.py, the catalog lookup and device enumeration of        *)
(* src/src/printer_detection.py, and the main loop of                      *)
(* src/src/simple_printer_test.py.                                         *)
(*                                                                         *)
(* External commands (lpadmin, lp, lpstat, cancel, lsusb, ...) are the     *)
(* environment: each call returns an exit code and a text, drawn from the  *)
(* small sets below.  A text is a sequence of words; the code's substring  *)
(* tests on the lowercased text are membership tests on lowercased words.  *)
(* In wait_for_print_completion the clock advances by time.sleep only.     *)
(*                                                                         *)
(* Specifications:                                                         *)
(*   Spec, FairSpec             one test_printer call, statement by        *)
(*                              statement                                  *)
(*   SpecConn                   is_printer_connected on drawn inputs       *)
(*   SpecRun, FairSpecRun       run, with test_printer in large steps      *)
(*   SpecWeb, FairSpecWeb       api_start_test, api_stop_test and the      *)
(*                              start_continuous_test threads              *)
(*   SpecOneTest,               the same with the clock standing still:    *)
(*   FairSpecOneTest            one thread from its start to its end       *)
(*   SpecDetect                 one enumeration of the detector on a drawn *)
(*                              lsusb output, and the polls after it       *)
(*   SpecSimple, FairSpecSimple simple_printer_test.main                   *)
(*   SpecMac                    the macOS enumeration of the detector on a *)
(*                              drawn system_profiler listing              *)
(***************************************************************************)
EXTENDS Integers, Sequences, FiniteSets, TLC

\* ------------------------------------------------------------ bounds
\* test_printer leaves its loop only on a disconnect; the number of cycles
\* one behaviour of the model starts is capped here.
MaxCycles == 2
\* get_test_images returns a one-element list; the loop of test_printer is
\* written for a list of any length, drawn from 1..MaxImages.
MaxImages == 2
\* run: the failed print_image calls one behaviour counts
MaxFailed == 4
\* web_app: the clock runs from 0 to MaxClock seconds
MaxClock == 1
\* web_app: the cycles one start_continuous_test thread starts
MaxWebCycles == 2
\* detection: the lines one lsusb output has at most
MaxLines == 2
\* detection on macOS: the device blocks one system_profiler listing has at most
MaxBlocks == 2

\* ------------------------------------------------------------ program constants
max_retries == 3
Timeout == 120
PollInterval == 2
\* web_app: len(test_images) in start_continuous_test
WebImages == 1

\* Optional values: <<>> is None, <<v>> is v
None == <<>>
Some(v) == <<v>>

\* ------------------------------------------------------------ characters
\* A Python string whose characters the code reads is the sequence of its
\* characters; Chars spells the strings of the catalog and of the lsusb lines.
Chars(s) ==
    CASE s = "Canon SELPHY CP1300" -> <<"C", "a", "n", "o", "n", " ", "S", "E", "L", "P", "H", "Y", " ", "C", "P", "1", "3", "0", "0">>
      [] s = "Canon SELPHY CP1500" -> <<"C", "a", "n", "o", "n", " ", "S", "E", "L", "P", "H", "Y", " ", "C", "P", "1", "5", "0", "0">>
      [] s = "Canon SELPHY CP910" -> <<"C", "a", "n", "o", "n", " ", "S", "E", "L", "P", "H", "Y", " ", "C", "P", "9", "1", "0">>
      [] s = "DNP QW410" -> <<"D", "N", "P", " ", "Q", "W", "4", "1", "0">>
      [] s = "DNP Photo Printer" -> <<"D", "N", "P", " ", "P", "h", "o", "t", "o", " ", "P", "r", "i", "n", "t", "e", "r">>
      [] s = "Canon" -> <<"C", "a", "n", "o", "n">>
      [] s = "DNP" -> <<"D", "N", "P">>
      [] s = "04a9" -> <<"0", "4", "a", "9">>
      [] s = "327b" -> <<"3", "2", "7", "b">>
      [] s = "3302" -> <<"3", "3", "0", "2">>
      [] s = "327a" -> <<"3", "2", "7", "a">>
      [] s = "1343" -> <<"1", "3", "4", "3">>
      [] s = "0003" -> <<"0", "0", "0", "3">>
      [] s = "1452" -> <<"1", "4", "5", "2">>
      [] s = "9201" -> <<"9", "2", "0", "1">>
      [] s = "1d6b" -> <<"1", "d", "6", "b">>
      [] s = "0002" -> <<"0", "0", "0", "2">>
      [] s = "04A9" -> <<"0", "4", "A", "9">>
      [] s = "327B" -> <<"3", "2", "7", "B">>
      [] s = "001" -> <<"0", "0", "1">>
      [] s = "002" -> <<"0", "0", "2">>
      [] s = "004" -> <<"0", "0", "4">>
      [] s = "005" -> <<"0", "0", "5">>
      [] s = "" -> <<>>

\* str.lower() on one character
LowerChar(c) ==
    CASE c = "A" -> "a"
      [] c = "B" -> "b"
      [] c = "C" -> "c"
      [] c = "D" -> "d"
      [] c = "E" -> "e"
      [] c = "F" -> "f"
      [] c = "G" -> "g"
      [] c = "H" -> "h"
      [] c = "I" -> "i"
      [] c = "J" -> "j"
      [] c = "K" -> "k"
      [] c = "L" -> "l"
      [] c = "M" -> "m"
      [] c = "N" -> "n"
      [] c = "O" -> "o"
      [] c = "P" -> "p"
      [] c = "Q" -> "q"
      [] c = "R" -> "r"
      [] c = "S" -> "s"
      [] c = "T" -> "t"
      [] c = "U" -> "u"
      [] c = "V" -> "v"
      [] c = "W" -> "w"
      [] c = "X" -> "x"
      [] c = "Y" -> "y"
      [] c = "Z" -> "z"
      [] OTHER -> c

\* s.lower()
ToLower(s) == [i \in 1..Len(s) |-> LowerChar(s[i])]

\* s.replace(old, new) for a one-character old
RECURSIVE Replace(_, _, _)
Replace(s, old, new) ==
    IF s = <<>> THEN <<>>
    ELSE (IF Head(s) = old THEN new ELSE <<Head(s)>>) \o Replace(Tail(s), old, new)

\* s.zfill(width)
RECURSIVE Zfill(_, _)
Zfill(s, width) == IF Len(s) >= width THEN s ELSE Zfill(<<"0">> \o s, width)

Digits == {"0", "1", "2", "3", "4", "5", "6", "7", "8", "9"}
HexDigits == Digits \cup {"a", "b", "c", "d", "e", "f"}

\* ------------------------------------------------------------ catalog
\* the catalog without its last Canon entry
SUPPORTED_PRINTERS_NoCP910 ==
    { <<"04a9", "327b">>, <<"04a9", "3302">>,
      <<"1343", "0003">>, <<"1452", "9201">> }

\* the keys of PrinterDetector.SUPPORTED_PRINTERS, 'vendor:product' as a pair
SUPPORTED_PRINTERS ==
    { <<"04a9", "327b">>, <<"04a9", "3302">>, <<"04a9", "327a">>,
      <<"1343", "0003">>, <<"1452", "9201">> }

PrinterName(vp) ==
    CASE vp = <<"04a9", "327b">> -> "Canon SELPHY CP1300"
      [] vp = <<"04a9", "3302">> -> "Canon SELPHY CP1500"
      [] vp = <<"04a9", "327a">> -> "Canon SELPHY CP910"
      [] vp = <<"1343", "0003">> -> "DNP QW410"
      [] vp = <<"1452", "9201">> -> "DNP Photo Printer"

\* the 'vendor' of an entry
PrinterVendor(vp) ==
    CASE vp = <<"04a9", "327b">> -> "Canon"
      [] vp = <<"04a9", "3302">> -> "Canon"
      [] vp = <<"04a9", "327a">> -> "Canon"
      [] vp = <<"1343", "0003">> -> "DNP"
      [] vp = <<"1452", "9201">> -> "DNP"

\* SUPPORTED_PRINTERS[vp]: in every entry 'model' repeats 'name' and 'ppd'
\* is 'raw'
Catalog(vp) ==
    [name |-> PrinterName(vp), model |-> PrinterName(vp),
     vendor |-> PrinterVendor(vp), ppd |-> "raw"]

\* The printers that are plugged and unplugged while test_printer runs: two
\* catalog printers of the same vendor.
Devices ==
    { [bus |-> "001", device |-> "004", vendor_id |-> "04a9", product_id |-> "327b"],
      [bus |-> "001", device |-> "005", vendor_id |-> "04a9", product_id |-> "3302"] }

\* The devices an inventory read can list: those, a catalog printer of
\* another vendor, and a device the catalog does not know that shares its
\* product id with one printer and its vendor id with another.
AllDevices ==
    Devices \cup
        { [bus |-> "001", device |-> "002", vendor_id |-> "1343", product_id |-> "0003"],
          [bus |-> "002", device |-> "002", vendor_id |-> "1343", product_id |-> "327b"] }

vendor_product(device) == <<device.vendor_id, device.product_id>>

\* f"usb://{vendor}/{name.replace(' ', '%20')}"
device_uri(vendor, name) ==
    <<"u", "s", "b", ":", "/", "/">> \o Chars(vendor) \o <<"/">>
        \o Replace(Chars(name), " ", <<"%", "2", "0">>)

\* the queue name with the spaces of the model name left in
cups_name_Spaces(name) ==
    <<"p", "r", "i", "g", "_">> \o ToLower(Chars(name))

\* f"prig_{name.lower().replace(' ', '_')}"
cups_name(name) ==
    <<"p", "r", "i", "g", "_">> \o Replace(ToLower(Chars(name)), " ", <<"_">>)

\* Optional[PrinterInfo]: the empty set is None, a singleton is the descriptor
_create_printer_info(device) ==
    IF vendor_product(device) \notin SUPPORTED_PRINTERS
    THEN {}
    ELSE LET printer_data == Catalog(vendor_product(device))
         IN  { [name |-> printer_data.name,
                model |-> printer_data.model,
                vendor |-> printer_data.vendor,
                device_uri |-> device_uri(printer_data.vendor, printer_data.name),
                cups_name |-> cups_name(printer_data.name),
                ppd_file |-> printer_data.ppd,
                usb_device |-> <<"Bus", device.bus, "Device", device.device>>,
                vendor_id |-> device.vendor_id,
                product_id |-> device.product_id] }

\* get_connected_printers with a descriptor for every device of the inventory
get_connected_printers_Unfiltered(usb_devices) ==
    { IF _create_printer_info(d) # {}
      THEN CHOOSE p \in _create_printer_info(d) : TRUE
      ELSE [name |-> "Unknown Device", vendor_id |-> d.vendor_id,
            product_id |-> d.product_id] : d \in usb_devices }

\* get_connected_printers over the devices the inventory read returned
get_connected_printers(usb_devices) ==
    UNION { _create_printer_info(d) :
        d \in { e \in usb_devices : vendor_product(e) \in SUPPORTED_PRINTERS } }

\* ------------------------------------------------------------ texts
Lower(w) ==
    CASE w = "Completed" -> "completed"
      [] w = "Disabled" -> "disabled"
      [] OTHER -> w

\* marker in text.lower()
Contains(text, marker) == \E i \in 1..Len(text) : Lower(text[i]) = marker

\* what lpstat -p <queue> can print
QueueTexts ==
    { <<"idle", "enabled">>, <<"Disabled">>, <<"offline">>,
      <<"idle", "enabled", "waiting for printer">> }

\* what lpstat -o <job> can print
JobTexts ==
    { <<>>, <<"pending">>, <<"Completed">>, <<"aborted">>, <<"canceled">>,
      <<"stopped">>, <<"completed", "aborted">> }

ExitCodes == {0, 1}

\* what one lpstat -o call returns: any text with exit code 0; with a
\* non-zero exit code the text is not read, two texts stand for all
JobAnswers ==
    { [rc |-> 0, text |-> t] : t \in JobTexts }
        \cup { [rc |-> 1, text |-> t] : t \in { <<>>, <<"Completed">> } }

\* ------------------------------------------------------------ state
VARIABLES
    pc,           \* position of test_printer (and of what it calls)
    usb,          \* the devices plugged in (the environment)
    printer,      \* the PrinterInfo test_printer was called with
    nImages,      \* len(test_images)
    cycle_count,  \* test_printer's cycle_count
    img,          \* index of the for loop over test_images (1-based)
    attempt,      \* the retry loop's attempt
    success,      \* test_printer's success
    conn,         \* what the last is_printer_connected call returned
    lastPoll,     \* the inputs of that call, kept until its result is used
    addCalls,     \* lpadmin -p commands issued
    addRc,        \* exit code of the last lpadmin -p, None before it
    lpCount,      \* lp commands issued by the print_image call in progress
    printCmds,    \* retry loop and print_image: what the attempt in progress asked
                  \* the system, in order
    lpEver,       \* an lp command was issued in this run
    attempts,     \* print_image calls for the current image in this cycle
    completed,    \* cycles in which the for loop ran to its end
    discSeen,     \* an is_printer_connected call of test_printer returned false
    reported,     \* the cycle count in the last log line before returning, or None
    exitKind,     \* how test_printer returned
    lpRc,         \* print_image: exit code of lp, None before it
    job_id,       \* print_image: the parsed job id (its words), <<>> when falsy
    printResult,  \* what the last print_image call returned
    elapsed,      \* wait_for_print_completion: time.time() - start_time
    polls,        \* lpstat -o commands issued by the print_image call in progress
    jobRc,        \* wait_for_print_completion: exit code of the last lpstat -o
    jobText,      \* wait_for_print_completion: text of the last lpstat -o
    waitResult,   \* what the last wait_for_print_completion call returned
    inspected,    \* wait_for_print_completion called _check_cups_error_log
    cmds,         \* setup_printer_in_cups: the commands issued, in order
    delCalls,     \* lpadmin -x commands issued in this run
    queue,        \* the CUPS queue of the printer exists
    imgInputs,    \* get_test_images: what it found, None outside the call
    imgResult,    \* get_test_images: "unset", "local", "url" or "raise"
    printers,     \* run: the list get_connected_printers returned
    idx,          \* run: index of the for loop over printers (1-based)
    attempted,    \* run: indices of the printers whose lpadmin -p was issued
    failures,     \* run: what has failed in the test_printer calls so far
    failedJobs,   \* run: print_image calls that returned False
    lsusb,        \* run: lsusb is "present" or "absent" when it is run
    exitCode,     \* run: the exit code of the process, None while it runs
    now,          \* web_app: int(time.time())
    test_threads, \* web_app: the keys of test_threads
    stop_flags,   \* web_app: stop_flags, test id -> the 'stop' entry
    th,           \* web_app: test id -> the state of its start_continuous_test thread
    lsLines,      \* detection: the lines lsusb prints
    nodes,        \* detection: the device nodes under /dev/bus/usb that exist
    inventory,    \* detection: what the last _get_usb_devices call returned, or None
    found,        \* detection: what the last get_connected_printers call returned
    lsRc,         \* detection: the exit code of the last lsusb, None before it
    cups,         \* simple_printer_test: queue name -> its state in lpstat -p
    known_printers,   \* simple_printer_test: main's known_printers
    current_printers, \* simple_printer_test: main's current_printers
    toPrint,      \* simple_printer_test: what the for loop over new_printers has left
    submitted,    \* simple_printer_test: the known printers an lp -d was run for
    spLines,      \* macOS: the lines system_profiler SPUSBDataType prints
    macDevices    \* macOS: what _get_macos_usb_devices returned, None before it

vars ==
    << pc, usb, printer, nImages, cycle_count, img, attempt, success, conn,
       lastPoll, addCalls, addRc, lpCount, lpEver, attempts, completed,
       discSeen, reported, exitKind, lpRc, job_id, printResult, elapsed,
       polls, jobRc, jobText, waitResult, inspected, cmds, printCmds, delCalls,
       queue,
       imgInputs, imgResult, printers, idx, attempted, failures,
       failedJobs, lsusb, exitCode, now, test_threads, stop_flags, th,
       lsLines, nodes, inventory, found, lsRc, cups, known_printers,
       current_printers, toPrint, submitted, spLines, macDevices >>

loopVars == << cycle_count, img, attempt, success, attempts, completed >>
connVars == << conn, lastPoll, discSeen >>
setupVars == << addCalls, addRc, cmds, delCalls, queue >>
printVars == << lpCount, lpEver, lpRc, job_id, printResult, printCmds >>
waitVars == << elapsed, polls, jobRc, jobText, waitResult, inspected >>
exitVars == << reported, exitKind >>
fixedVars == << printer, nImages >>
imageVars == << imgInputs, imgResult >>
runVars == << printers, idx, attempted, failures, failedJobs, lsusb, exitCode >>
webVars == << now, test_threads, stop_flags, th >>
detVars == << lsLines, nodes, inventory, found, lsRc >>
simpleVars == << cups, known_printers, current_printers, toPrint, submitted >>
macVars == << spLines, macDevices >>
auxVars == << detVars, simpleVars, macVars >>
extVars == << runVars, webVars, auxVars >>

\* ------------------------------------------------------------ is_printer_connected
\* hasattr(printer, 'device_path')
has_device_path(p) == "device_path" \in DOMAIN p

\* is_printer_connected with the lpstat answer deciding when no device matches
is_printer_connected_ByStatus(p, usb_devices, raised, path_exists, rc, text) ==
    IF raised = "inventory" THEN FALSE
    ELSE IF \E device \in get_connected_printers(usb_devices) :
                /\ device.vendor_id = p.vendor_id
                /\ device.product_id = p.product_id
    THEN TRUE
    ELSE IF raised = "lpstat" THEN FALSE
    ELSE IF rc = 0 /\ (Contains(text, "disabled") \/ Contains(text, "offline"))
    THEN FALSE
    ELSE rc = 0

\* PrinterTestRig.is_printer_connected.  usb_devices: what the inventory read
\* returned; raised: which call raised, if any; path_exists: whether the
\* device file is there; rc, text: what lpstat -p returned.
is_printer_connected(p, usb_devices, raised, path_exists, rc, text) ==
    IF raised = "inventory" THEN FALSE
    ELSE IF \E device \in get_connected_printers(usb_devices) :
                /\ device.vendor_id = p.vendor_id
                /\ device.product_id = p.product_id
    THEN TRUE
    ELSE IF has_device_path(p) /\ path_exists THEN TRUE
    ELSE IF raised = "lpstat" THEN FALSE
    ELSE IF rc = 0 /\ (Contains(text, "disabled") \/ Contains(text, "offline"))
    THEN FALSE
    ELSE FALSE

\* the web predicate comparing the vendor id only
web_is_printer_connected_ByVendor(p, usb_devices, raised) ==
    IF raised = "inventory" THEN FALSE
    ELSE IF \E device \in get_connected_printers(usb_devices) :
                device.vendor_id = p.vendor_id
    THEN TRUE
    ELSE FALSE

\* WebControlledPrinterRig.is_printer_connected
web_is_printer_connected(p, usb_devices, raised) ==
    IF raised = "inventory" THEN FALSE
    ELSE IF \E device \in get_connected_printers(usb_devices) :
                /\ device.vendor_id = p.vendor_id
                /\ device.product_id = p.product_id
    THEN TRUE
    ELSE FALSE

Raises == {"none", "inventory", "lpstat"}

NoPoll ==
    [polled |-> FALSE, inv |-> {}, raised |-> "none", path_exists |-> FALSE,
     rc |-> 0, text |-> <<>>]

\* PrinterTestRig.run is not part of this behaviour
RunOff ==
    /\ printers = <<>> /\ idx = 0 /\ attempted = {} /\ failures = {}
    /\ failedJobs = 0 /\ lsusb = "present" /\ exitCode = None

\* the web application is not part of this behaviour
WebOff ==
    /\ now = 0 /\ test_threads = {}
    /\ stop_flags = [id \in {} |-> FALSE] /\ th = [id \in {} |-> FALSE]

\* the device enumeration is not followed in this behaviour
DetectOff ==
    /\ lsLines = <<>> /\ nodes = {} /\ inventory = None /\ found = {}
    /\ lsRc = None

\* simple_printer_test.py does not run in this behaviour
SimpleOff ==
    /\ cups = <<>> /\ known_printers = {} /\ current_printers = {}
    /\ toPrint = {} /\ submitted = {}

MacOff == spLines = <<>> /\ macDevices = None

AuxOff == DetectOff /\ SimpleOff /\ MacOff

\* run: printers = get_connected_printers(); test_printer(printer) for one of them
Init ==
    /\ RunOff /\ WebOff /\ AuxOff
    /\ usb \in SUBSET Devices
    /\ printer \in get_connected_printers(usb)
    /\ nImages = 0
    /\ pc = "setup_delete"
    /\ cycle_count = 0 /\ img = 0 /\ attempt = 0 /\ success = FALSE
    /\ conn = FALSE /\ lastPoll = NoPoll /\ discSeen = FALSE
    /\ addCalls = 0 /\ addRc = None
    /\ cmds = <<>> /\ delCalls = 0 /\ queue \in BOOLEAN
    /\ imgInputs = None /\ imgResult = "unset"
    /\ printCmds = <<>>
    /\ lpCount = 0 /\ lpEver = FALSE /\ lpRc = None /\ job_id = <<>>
    /\ printResult = FALSE
    /\ attempts = 0 /\ completed = 0
    /\ reported = None /\ exitKind = "running"
    /\ elapsed = 0 /\ polls = 0 /\ jobRc = None /\ jobText = <<>>
    /\ waitResult = FALSE /\ inspected = FALSE

\* ------------------------------------------------------------ environment
Plug ==
    /\ pc # "done"
    /\ \E d \in Devices \ usb : usb' = usb \cup {d}
    /\ UNCHANGED << extVars, imageVars, pc, fixedVars, loopVars, connVars, setupVars, printVars,
                    waitVars, exitVars >>

Unplug ==
    /\ pc # "done"
    /\ \E d \in usb : usb' = usb \ {d}
    /\ UNCHANGED << extVars, imageVars, pc, fixedVars, loopVars, connVars, setupVars, printVars,
                    waitVars, exitVars >>

\* ------------------------------------------------------------ setup_printer_in_cups
\* a step of the driver that changes pc only
Goto(from, to) ==
    /\ pc = from
    /\ pc' = to
    /\ UNCHANGED << extVars, imageVars, usb, fixedVars, loopVars, connVars, setupVars, printVars,
                    waitVars, exitVars >>

\* subprocess.run([...]) as an entry of the command log
Issued(cmd, rc, text) == Append(cmds, [cmd |-> cmd, rc |-> rc, text |-> text])

\* a command whose result is not read: it is logged and the next line runs
Run(from, cmd, to) ==
    /\ pc = from
    /\ \E rc \in ExitCodes : cmds' = Issued(cmd, rc, <<>>)
    /\ pc' = to
    /\ UNCHANGED << extVars, imageVars, usb, fixedVars, loopVars, connVars, addCalls,
                    addRc, delCalls, queue, printVars, waitVars, exitVars >>

\* SetupDelete giving up when lpadmin -x fails
SetupDelete_Checked ==
    /\ pc = "setup_delete"
    /\ \E rc \in ExitCodes :
        /\ cmds' = Issued("lpadmin -x", rc, <<>>)
        /\ queue' = (queue /\ rc # 0)
        /\ pc' = IF rc # 0 THEN "except" ELSE "setup_cancel"
    /\ delCalls' = delCalls + 1
    /\ UNCHANGED << extVars, imageVars, usb, fixedVars, loopVars, connVars, addCalls,
                    addRc, printVars, waitVars, exitVars >>

\* lpadmin -x: the exit code is not read; the queue is gone when it succeeds
SetupDelete ==
    /\ pc = "setup_delete"
    /\ \E rc \in ExitCodes :
        /\ cmds' = Issued("lpadmin -x", rc, <<>>)
        /\ queue' = (queue /\ rc # 0)
    /\ pc' = "setup_cancel"
    /\ delCalls' = delCalls + 1
    /\ UNCHANGED << extVars, imageVars, usb, fixedVars, loopVars, connVars, addCalls,
                    addRc, printVars, waitVars, exitVars >>

\* cancel -a: the exit code is not read
SetupCancel == Run("setup_cancel", "cancel -a", "setup_add")

\* SetupAdd with the exit code not read
SetupAdd_Unchecked ==
    /\ pc = "setup_add"
    /\ \E rc \in ExitCodes :
        /\ addRc' = Some(rc)
        /\ cmds' = Issued("lpadmin -p", rc, <<>>)
        /\ queue' = (queue \/ rc = 0)
    /\ pc' = "setup_enable"
    /\ addCalls' = addCalls + 1
    /\ UNCHANGED << extVars, imageVars, usb, fixedVars, loopVars, connVars, delCalls,
                    printVars, waitVars, exitVars >>

\* lpadmin -p ...; a non-zero exit code raises
SetupAdd ==
    /\ pc = "setup_add"
    /\ \E rc \in ExitCodes :
        /\ addRc' = Some(rc)
        /\ cmds' = Issued("lpadmin -p", rc, <<>>)
        /\ queue' = (queue \/ rc = 0)
        /\ pc' = IF rc # 0 THEN "except" ELSE "setup_enable"
    /\ addCalls' = addCalls + 1
    /\ UNCHANGED << extVars, imageVars, usb, fixedVars, loopVars, connVars, delCalls,
                    printVars, waitVars, exitVars >>

\* cupsenable
SetupEnable == Run("setup_enable", "cupsenable", "setup_accept")

\* cupsaccept
SetupAccept == Run("setup_accept", "cupsaccept", "setup_default")

\* lpoptions -d
SetupDefault == Run("setup_default", "lpoptions -d", "verify_p")

\* VerifyP re-enabling whatever lpstat -p says
VerifyP_Always ==
    /\ pc = "verify_p"
    /\ \E rc \in ExitCodes, text \in QueueTexts :
        /\ cmds' = Issued("lpstat -p", rc, text)
        /\ pc' = "verify_enable"
    /\ UNCHANGED << extVars, imageVars, usb, fixedVars, loopVars, connVars, addCalls,
                    addRc, delCalls, queue, printVars, waitVars, exitVars >>

\* _verify_printer_status: lpstat -p, cupsenable again when it says disabled
VerifyP ==
    /\ pc = "verify_p"
    /\ \E rc \in ExitCodes, text \in QueueTexts :
        /\ cmds' = Issued("lpstat -p", rc, text)
        /\ pc' = IF rc = 0 /\ Contains(text, "disabled")
                 THEN "verify_enable" ELSE "verify_a"
    /\ UNCHANGED << extVars, imageVars, usb, fixedVars, loopVars, connVars, addCalls,
                    addRc, delCalls, queue, printVars, waitVars, exitVars >>

VerifyEnable == Run("verify_enable", "cupsenable", "verify_a")

AcceptTexts == { <<"accepting">>, <<"not accepting">> }

\* lpstat -a, cupsaccept again when it says not accepting
VerifyA ==
    /\ pc = "verify_a"
    /\ \E rc \in ExitCodes, text \in AcceptTexts :
        /\ cmds' = Issued("lpstat -a", rc, text)
        /\ pc' = IF rc = 0 /\ Contains(text, "not accepting")
                 THEN "verify_accept" ELSE "get_images"
    /\ UNCHANGED << extVars, imageVars, usb, fixedVars, loopVars, connVars, addCalls,
                    addRc, delCalls, queue, printVars, waitVars, exitVars >>

VerifyAccept == Run("verify_accept", "cupsaccept", "get_images")

\* ------------------------------------------------------------ get_test_images
\* what the call finds: a local file at one of the searched paths, a
\* configured URL, a download that succeeds
ImageInputs == [local : BOOLEAN, url_set : BOOLEAN, download_ok : BOOLEAN]

\* get_test_images taking a failed download for an image
get_test_images_NoRaise(inp) ==
    IF inp.local THEN "local"
    ELSE IF inp.url_set THEN "url"
    ELSE "raise"

\* get_test_images: the local file, else the download, else an exception
get_test_images(inp) ==
    IF inp.local THEN "local"
    ELSE IF inp.url_set
    THEN IF inp.download_ok THEN "url" ELSE "raise"
    ELSE "raise"

\* test_images = self.get_test_images(printer): the call.  The command log
\* of setup_printer_in_cups ends with that call.
GetTestImages ==
    /\ pc = "get_images"
    /\ \E inp \in ImageInputs :
        /\ imgInputs' = Some(inp)
        /\ imgResult' = get_test_images(inp)
    /\ cmds' = <<>>
    /\ pc' = "images_ret"
    /\ UNCHANGED << extVars, usb, fixedVars, loopVars, connVars, addCalls,
                    addRc, delCalls, queue, printVars, waitVars, exitVars >>

\* the assignment of the returned list, or the exception on its way to the
\* handler
ImagesReturn ==
    /\ pc = "images_ret"
    /\ IF imgResult = "raise"
       THEN /\ pc' = "except"
            /\ UNCHANGED << nImages, imageVars >>
       ELSE /\ \E n \in 1..MaxImages : nImages' = n
            /\ imgInputs' = None
            /\ imgResult' = "unset"
            /\ pc' = "while_call"
    /\ UNCHANGED << extVars, usb, printer, loopVars, connVars, setupVars,
                    printVars, waitVars, exitVars >>

\* except Exception as e: logger.error(...)
Except ==
    /\ pc = "except"
    /\ pc' = "done"
    /\ exitKind' = "exception"
    /\ UNCHANGED << extVars, imageVars, usb, fixedVars, loopVars, connVars, setupVars, printVars,
                    waitVars, reported >>

\* ------------------------------------------------------------ test_printer: the loops
\* one is_printer_connected call at `site`; the inventory read returns the
\* plugged devices, or nothing when the listing command fails
CheckConnected(site, next) ==
    /\ pc = site
    /\ \E inv \in {usb, {}}, raised \in Raises, path_exists \in BOOLEAN,
          rc \in ExitCodes, text \in QueueTexts :
        LET r == is_printer_connected(printer, inv, raised, path_exists, rc, text)
        IN  /\ (site = "while_call" /\ cycle_count >= MaxCycles) => ~r
            /\ conn' = r
            /\ discSeen' = (discSeen \/ ~r)
    /\ pc' = next
    /\ UNCHANGED << extVars, imageVars, usb, fixedVars, loopVars, lastPoll, setupVars, printVars,
                    waitVars, exitVars >>

\* while self.is_printer_connected(printer):
WhileCall == CheckConnected("while_call", "while_test")

\* WhileTest with the counter left alone
WhileTest_NoCount ==
    /\ pc = "while_test"
    /\ IF conn
       THEN /\ img' = 1
            /\ pc' = "for_head"
            /\ UNCHANGED exitVars
       ELSE /\ reported' = Some(cycle_count)
            /\ exitKind' = "loop_exit"
            /\ pc' = "done"
            /\ UNCHANGED img
    /\ UNCHANGED << extVars, imageVars, usb, fixedVars, cycle_count, attempt, success, attempts,
                    completed, connVars, setupVars, printVars, waitVars >>

\* WhileTest leaving the loop after the first cycle
WhileTest_OneCycle ==
    /\ pc = "while_test"
    /\ IF conn /\ cycle_count = 0
       THEN /\ cycle_count' = cycle_count + 1
            /\ img' = 1
            /\ pc' = "for_head"
            /\ UNCHANGED exitVars
       ELSE /\ reported' = Some(cycle_count)
            /\ exitKind' = "loop_exit"
            /\ pc' = "done"
            /\ UNCHANGED << cycle_count, img >>
    /\ UNCHANGED << extVars, imageVars, usb, fixedVars, attempt, success, attempts, completed,
                    connVars, setupVars, printVars, waitVars >>

\* WhileTest removing the queue when the loop is left
WhileTest_Teardown ==
    /\ pc = "while_test"
    /\ IF conn
       THEN /\ cycle_count' = cycle_count + 1
            /\ img' = 1
            /\ pc' = "for_head"
            /\ UNCHANGED << exitVars, delCalls, queue >>
       ELSE /\ reported' = Some(cycle_count)
            /\ exitKind' = "loop_exit"
            /\ pc' = "done"
            /\ delCalls' = delCalls + 1
            /\ queue' = FALSE
            /\ UNCHANGED << cycle_count, img >>
    /\ UNCHANGED << extVars, imageVars, usb, fixedVars, attempt, success, attempts,
                    completed, connVars, addCalls, addRc, cmds, printVars,
                    waitVars >>

\* cycle_count += 1, or the log line after the loop
WhileTest ==
    /\ pc = "while_test"
    /\ IF conn
       THEN /\ cycle_count' = cycle_count + 1
            /\ img' = 1
            /\ pc' = "for_head"
            /\ UNCHANGED exitVars
       ELSE /\ reported' = Some(cycle_count)
            /\ exitKind' = "loop_exit"
            /\ pc' = "done"
            /\ UNCHANGED << cycle_count, img >>
    /\ UNCHANGED << extVars, imageVars, usb, fixedVars, attempt, success, attempts, completed,
                    connVars, setupVars, printVars, waitVars >>

\* for image_path, description in test_images: the next image, or the end
\* of the cycle when every image was attempted
ForHead ==
    /\ pc = "for_head"
    /\ IF img <= nImages
       THEN pc' = "for_call" /\ completed' = completed
       ELSE pc' = "cycle_wait" /\ completed' = completed + 1
    /\ UNCHANGED << extVars, imageVars, usb, fixedVars, cycle_count, img, attempt, success, attempts,
                    connVars, setupVars, printVars, waitVars, exitVars >>

\* if not self.is_printer_connected(printer):
ForCall == CheckConnected("for_call", "for_test")

\* ForTest with the result of the check not read
ForTest_Unchecked ==
    /\ pc = "for_test"
    /\ attempt' = 0
    /\ success' = FALSE
    /\ attempts' = 0
    /\ pc' = "attempt_head"
    /\ UNCHANGED << extVars, imageVars, usb, fixedVars, cycle_count, img, completed, connVars,
                    setupVars, printVars, waitVars, exitVars >>

\* return on a disconnect, else start the retry loop
ForTest ==
    /\ pc = "for_test"
    /\ IF ~conn
       THEN /\ exitKind' = "mid_return"
            /\ pc' = "done"
            /\ UNCHANGED << attempt, success, attempts, reported >>
       ELSE /\ attempt' = 0
            /\ success' = FALSE
            /\ attempts' = 0
            /\ pc' = "attempt_head"
            /\ UNCHANGED exitVars
    /\ UNCHANGED << extVars, imageVars, usb, fixedVars, cycle_count, img, completed, connVars,
                    setupVars, printVars, waitVars >>

\* the retry loop without the cancel before a retry
AttemptHead_NoCancel ==
    /\ pc = "attempt_head"
    /\ pc' = IF attempt >= max_retries THEN "after_retries" ELSE "print_image"
    /\ UNCHANGED << extVars, imageVars, usb, fixedVars, loopVars, connVars, setupVars, printVars,
                    waitVars, exitVars >>

\* for attempt in range(max_retries): if attempt > 0: ...
AttemptHead ==
    /\ pc = "attempt_head"
    /\ pc' = IF attempt >= max_retries THEN "after_retries"
             ELSE IF attempt > 0 THEN "retry_cancel" ELSE "print_image"
    /\ UNCHANGED << extVars, imageVars, usb, fixedVars, loopVars, connVars, setupVars, printVars,
                    waitVars, exitVars >>

\* sleep, cancel -a, sleep
RetryCancel ==
    /\ pc = "retry_cancel"
    /\ \E rc \in ExitCodes :
        printCmds' = Append(printCmds, [cmd |-> "cancel -a", rc |-> rc, text |-> <<>>])
    /\ pc' = "print_image"
    /\ UNCHANGED << extVars, imageVars, usb, fixedVars, loopVars, connVars, setupVars,
                    lpCount, lpEver, lpRc, job_id, printResult, waitVars,
                    exitVars >>

\* AfterPrint giving up after the first failure
AfterPrint_NoRetry ==
    /\ pc = "pi_return"
    /\ success' = printResult
    /\ pc' = "after_retries" /\ attempt' = attempt
    /\ lpCount' = 0 /\ lpRc' = None /\ job_id' = <<>> /\ printResult' = FALSE
    /\ polls' = 0 /\ elapsed' = 0 /\ jobRc' = None /\ jobText' = <<>>
    /\ waitResult' = FALSE /\ inspected' = FALSE
    /\ printCmds' = <<>>
    /\ UNCHANGED << extVars, imageVars, usb, fixedVars, cycle_count, img, attempts, completed,
                    connVars, setupVars, lpEver, exitVars >>

\* the retry loop without its break: a successful attempt is followed by the
\* next attempt
AfterPrint_NoBreak ==
    /\ pc = "pi_return"
    /\ success' = printResult
    /\ pc' = "attempt_head" /\ attempt' = attempt + 1
    /\ lpCount' = 0 /\ lpRc' = None /\ job_id' = <<>> /\ printResult' = FALSE
    /\ polls' = 0 /\ elapsed' = 0 /\ jobRc' = None /\ jobText' = <<>>
    /\ waitResult' = FALSE /\ inspected' = FALSE
    /\ printCmds' = <<>>
    /\ UNCHANGED << extVars, imageVars, usb, fixedVars, cycle_count, img, attempts, completed,
                    connVars, setupVars, lpEver, exitVars >>

\* print_image has returned (pc = "pi_return"): success = its result; break,
\* or the next attempt.  The locals of the call are gone.
AfterPrint ==
    /\ pc = "pi_return"
    /\ success' = printResult
    /\ IF printResult
       THEN pc' = "after_retries" /\ attempt' = attempt
       ELSE pc' = "attempt_head" /\ attempt' = attempt + 1
    /\ lpCount' = 0 /\ lpRc' = None /\ job_id' = <<>> /\ printResult' = FALSE
    /\ polls' = 0 /\ elapsed' = 0 /\ jobRc' = None /\ jobText' = <<>>
    /\ waitResult' = FALSE /\ inspected' = FALSE
    /\ printCmds' = <<>>
    /\ UNCHANGED << extVars, imageVars, usb, fixedVars, cycle_count, img, attempts, completed,
                    connVars, setupVars, lpEver, exitVars >>

\* the for loop going on with the image after the next
AfterRetries_Skip ==
    /\ pc = "after_retries"
    /\ img' = img + 2
    /\ pc' = "for_head"
    /\ UNCHANGED << extVars, imageVars, usb, fixedVars, cycle_count, attempt, success, attempts,
                    completed, connVars, setupVars, printVars, waitVars,
                    exitVars >>

\* if not success: ... continue; else sleep: either way the next image
AfterRetries ==
    /\ pc = "after_retries"
    /\ img' = img + 1
    /\ pc' = "for_head"
    /\ UNCHANGED << extVars, imageVars, usb, fixedVars, cycle_count, attempt, success, attempts,
                    completed, connVars, setupVars, printVars, waitVars,
                    exitVars >>

\* "Completed print cycle ...", sleep
CycleWait == Goto("cycle_wait", "while_call")

\* ------------------------------------------------------------ print_image
\* _check_printer_ready on what lpstat -p returned
_check_printer_ready(rc, text) ==
    IF rc # 0 THEN FALSE
    ELSE /\ Contains(text, "idle")
         /\ Contains(text, "enabled")
         /\ ~Contains(text, "unable to send data")
         /\ ~Contains(text, "waiting for printer")

\* what lp can print: lines of words; "request id is" is the marker
LpOutputs ==
    { << <<"request id is", "prig-12", "(1 file(s))">> >>,
      << <<>> >>,
      << <<"queued">> >>,
      << <<"request id is">> >>,
      << <<"lp:", "warning">>, <<"request id is", "prig-12", "(1 file(s))">> >> }

\* 'request id is' in line
HasMarker(line) == \E i \in 1..Len(line) : line[i] = "request id is"

FirstMarker(line) == CHOOSE i \in 1..Len(line) :
    /\ line[i] = "request id is"
    /\ \A j \in 1..(i - 1) : line[j] # "request id is"

\* line.split('request id is')[1].strip(): the words between the first marker
\* and the next one
AfterMarker(line) ==
    LET i == FirstMarker(line)
        later == { j \in (i + 1)..Len(line) : line[j] = "request id is" }
        stop == IF later = {} THEN Len(line) + 1
                ELSE CHOOSE j \in later : \A k \in later : j <= k
    IN  SubSeq(line, i + 1, stop - 1)

\* the job id loop over the output lines: the first line with the marker
RECURSIVE ParseJobId(_)
ParseJobId(lines) ==
    IF lines = <<>> THEN <<>>
    ELSE IF HasMarker(Head(lines)) THEN AfterMarker(Head(lines))
    ELSE ParseJobId(Tail(lines))

\* entry: the image file check.  The log starts anew with the call: it
\* holds the answer of image_path.exists(), and after it the commands of
\* the latest statement of print_image.
PrintImage ==
    /\ pc = "print_image"
    /\ attempts' = attempts + 1
    /\ \E exists \in BOOLEAN :
        /\ printCmds' = << [cmd |-> "exists", rc |-> 0,
                       text |-> IF exists THEN <<"True">> ELSE <<"False">>] >>
        /\ IF exists
           THEN pc' = "pi_ready1" /\ printResult' = printResult
           ELSE pc' = "pi_return" /\ printResult' = FALSE
    /\ UNCHANGED << extVars, imageVars, usb, fixedVars, cycle_count, img, attempt, success,
                    completed, connVars, setupVars,
                    lpCount, lpEver, lpRc, job_id, waitVars, exitVars >>

\* if not self._check_printer_ready(printer):
CheckReady1 ==
    /\ pc = "pi_ready1"
    /\ \E rc \in ExitCodes, text \in QueueTexts :
        /\ printCmds' = Append(printCmds, [cmd |-> "lpstat -p", rc |-> rc, text |-> text])
        /\ pc' = IF _check_printer_ready(rc, text) THEN "pi_submit" ELSE "pi_reset"
    /\ UNCHANGED << extVars, imageVars, usb, fixedVars, loopVars, connVars, setupVars, lpCount, lpEver, lpRc,
                    job_id, printResult, waitVars, exitVars >>

\* _reset_printer that gives up at the first command that fails
ResetPrinter_StopOnFailure ==
    /\ pc = "pi_reset"
    /\ \E rc1, rc2, rc3, rc4 \in ExitCodes :
        LET all == << [cmd |-> "cancel -a", rc |-> rc1, text |-> <<>>],
                      [cmd |-> "cupsdisable", rc |-> rc2, text |-> <<>>],
                      [cmd |-> "cupsenable", rc |-> rc3, text |-> <<>>],
                      [cmd |-> "cupsaccept", rc |-> rc4, text |-> <<>>] >>
            failed == { i \in 1..4 : all[i].rc # 0 }
            last == IF failed = {} THEN 4
                    ELSE CHOOSE i \in failed : \A j \in failed : i <= j
        IN  printCmds' = << printCmds[1] >> \o SubSeq(all, 1, last)
    /\ pc' = "pi_ready2"
    /\ UNCHANGED << extVars, imageVars, usb, fixedVars, loopVars, connVars, setupVars, lpCount, lpEver, lpRc,
                    job_id, printResult, waitVars, exitVars >>

\* _reset_printer: cancel -a, cupsdisable, cupsenable, cupsaccept; no exit
\* code is read
ResetPrinter ==
    /\ pc = "pi_reset"
    /\ \E rc1, rc2, rc3, rc4 \in ExitCodes :
        printCmds' = << printCmds[1],
                       [cmd |-> "cancel -a", rc |-> rc1, text |-> <<>>],
                       [cmd |-> "cupsdisable", rc |-> rc2, text |-> <<>>],
                       [cmd |-> "cupsenable", rc |-> rc3, text |-> <<>>],
                       [cmd |-> "cupsaccept", rc |-> rc4, text |-> <<>>] >>
    /\ pc' = "pi_ready2"
    /\ UNCHANGED << extVars, imageVars, usb, fixedVars, loopVars, connVars, setupVars, lpCount, lpEver, lpRc,
                    job_id, printResult, waitVars, exitVars >>

\* a second readiness check whose answer is not read
CheckReady2_Unchecked ==
    /\ pc = "pi_ready2"
    /\ \E rc \in ExitCodes, text \in QueueTexts :
        /\ printCmds' = << printCmds[1], [cmd |-> "lpstat -p", rc |-> rc, text |-> text] >>
        /\ pc' = "pi_submit" /\ printResult' = printResult
    /\ UNCHANGED << extVars, imageVars, usb, fixedVars, loopVars, connVars, setupVars, lpCount, lpEver, lpRc, job_id,
                    waitVars, exitVars >>

\* the second readiness check
CheckReady2 ==
    /\ pc = "pi_ready2"
    /\ \E rc \in ExitCodes, text \in QueueTexts :
        /\ printCmds' = << printCmds[1], [cmd |-> "lpstat -p", rc |-> rc, text |-> text] >>
        /\ IF _check_printer_ready(rc, text)
           THEN pc' = "pi_submit" /\ printResult' = printResult
           ELSE pc' = "pi_return" /\ printResult' = FALSE
    /\ UNCHANGED << extVars, imageVars, usb, fixedVars, loopVars, connVars, setupVars, lpCount, lpEver, lpRc, job_id,
                    waitVars, exitVars >>

\* Submit with a missing job id taken as a failure
Submit_NoIdFails ==
    /\ pc = "pi_submit"
    /\ lpCount' = lpCount + 1
    /\ lpEver' = TRUE
    /\ \E rc \in ExitCodes, out \in LpOutputs :
        /\ lpRc' = Some(rc)
        /\ IF rc = 0
           THEN /\ job_id' = ParseJobId(out)
                /\ IF ParseJobId(out) # <<>>
                   THEN pc' = "wait_loop" /\ printResult' = printResult
                   ELSE pc' = "pi_return" /\ printResult' = FALSE
           ELSE /\ job_id' = job_id
                /\ pc' = "pi_return" /\ printResult' = FALSE
    /\ printCmds' = <<>>
    /\ UNCHANGED << extVars, imageVars, usb, fixedVars, loopVars, connVars, setupVars, waitVars,
                    exitVars >>

\* lp -d ...: exit code and output, then the job id
Submit ==
    /\ pc = "pi_submit"
    /\ lpCount' = lpCount + 1
    /\ lpEver' = TRUE
    /\ \E rc \in ExitCodes, out \in LpOutputs :
        /\ lpRc' = Some(rc)
        /\ IF rc = 0
           THEN /\ job_id' = ParseJobId(out)
                /\ IF ParseJobId(out) # <<>>
                   THEN pc' = "wait_loop" /\ printResult' = printResult
                   ELSE pc' = "pi_return" /\ printResult' = TRUE
           ELSE /\ job_id' = job_id
                /\ pc' = "pi_return" /\ printResult' = FALSE
    /\ printCmds' = <<>>
    /\ UNCHANGED << extVars, imageVars, usb, fixedVars, loopVars, connVars, setupVars, waitVars,
                    exitVars >>

\* ------------------------------------------------------------ wait_for_print_completion
FailMarkers == {"aborted", "canceled", "stopped"}

\* WaitStep with the completion marker read before the exit code
WaitStep_MarkerFirst(rc, text) ==
    IF Contains(text, "completed") THEN "true"
    ELSE IF rc # 0 THEN "false"
    ELSE IF \E m \in FailMarkers : Contains(text, m) THEN "false"
    ELSE "sleep"

\* one pass of the loop body on what lpstat -o returned:
\* "true" / "false" for a return, "sleep" to go round again
WaitStep(rc, text) ==
    IF rc # 0 THEN "false"
    ELSE IF Contains(text, "completed") THEN "true"
    ELSE IF \E m \in FailMarkers : Contains(text, m) THEN "false"
    ELSE "sleep"

\* WaitCond with <= for <
WaitCond_Inclusive(t) == t <= Timeout

\* while time.time() - start_time < timeout:
WaitCond(t) == t < Timeout

\* the loop body; on a failed query and on a failure marker
\* _check_cups_error_log runs before the return (it catches what it raises)
WaitPoll ==
    /\ pc = "wait_loop"
    /\ WaitCond(elapsed)
    /\ polls' = polls + 1
    /\ \E a \in JobAnswers :
        /\ jobRc' = Some(a.rc)
        /\ jobText' = a.text
        /\ LET r == WaitStep(a.rc, a.text)
           IN  IF r = "sleep"
               THEN /\ pc' = "wait_sleep"
                    /\ UNCHANGED << waitResult, printResult, inspected >>
               ELSE /\ pc' = "pi_return"
                    /\ waitResult' = (r = "true")
                    /\ printResult' = (r = "true")
                    /\ inspected' = (r = "false")
    /\ UNCHANGED << extVars, imageVars, usb, fixedVars, loopVars, connVars, setupVars, printCmds, lpCount,
                    lpEver, lpRc, job_id, elapsed, exitVars >>

\* time.sleep(2)
WaitSleep ==
    /\ pc = "wait_sleep"
    /\ elapsed' = elapsed + PollInterval
    /\ pc' = "wait_loop"
    /\ UNCHANGED << extVars, imageVars, usb, fixedVars, loopVars, connVars, setupVars, printVars,
                    polls, jobRc, jobText, waitResult, inspected, exitVars >>

\* the loop condition fails: "timed out", return False
WaitTimeout ==
    /\ pc = "wait_loop"
    /\ ~WaitCond(elapsed)
    /\ waitResult' = FALSE
    /\ printResult' = FALSE
    /\ pc' = "pi_return"
    /\ UNCHANGED << extVars, imageVars, usb, fixedVars, loopVars, connVars, setupVars, printCmds, lpCount,
                    lpEver, lpRc, job_id, elapsed, polls, jobRc, jobText,
                    inspected, exitVars >>

\* ------------------------------------------------------------ specification
Driver ==
    \/ SetupDelete \/ SetupCancel \/ SetupAdd \/ SetupEnable \/ SetupAccept
    \/ SetupDefault \/ VerifyP \/ VerifyEnable \/ VerifyA \/ VerifyAccept
    \/ GetTestImages \/ ImagesReturn \/ Except
    \/ WhileCall \/ WhileTest \/ ForHead \/ ForCall \/ ForTest
    \/ AttemptHead \/ RetryCancel \/ AfterPrint \/ AfterRetries \/ CycleWait
    \/ PrintImage \/ CheckReady1 \/ ResetPrinter \/ CheckReady2 \/ Submit
    \/ WaitPoll \/ WaitSleep \/ WaitTimeout

Next == Driver \/ Plug \/ Unplug

Spec == Init /\ [][Next]_vars

\* every call returns and the single thread goes on
FairSpec == Spec /\ WF_vars(Driver)

\* ------------------------------------------------------------ is_printer_connected alone
\* The two connectivity predicates applied to drawn inputs: any inventory,
\* any raising call, any lpstat answer.
InitConn ==
    /\ RunOff /\ WebOff /\ AuxOff
    /\ pc = "conn_input"
    /\ usb = {}
    /\ printer \in get_connected_printers(AllDevices)
    /\ lastPoll \in [polled : {FALSE}, inv : SUBSET AllDevices, raised : Raises,
                     path_exists : BOOLEAN, rc : ExitCodes, text : QueueTexts]
    /\ nImages = 0
    /\ cycle_count = 0 /\ img = 0 /\ attempt = 0 /\ success = FALSE
    /\ conn = FALSE /\ discSeen = FALSE
    /\ addCalls = 0 /\ addRc = None
    /\ printCmds = <<>>
    /\ lpCount = 0 /\ lpEver = FALSE /\ lpRc = None /\ job_id = <<>>
    /\ printResult = FALSE
    /\ attempts = 0 /\ completed = 0
    /\ reported = None /\ exitKind = "running"
    /\ elapsed = 0 /\ polls = 0 /\ jobRc = None /\ jobText = <<>>
    /\ waitResult = FALSE /\ inspected = FALSE
    /\ cmds = <<>> /\ delCalls = 0 /\ queue = FALSE
    /\ imgInputs = None /\ imgResult = "unset"

\* PrinterTestRig.is_printer_connected(printer)
ConnApply ==
    /\ pc = "conn_input"
    /\ conn' = is_printer_connected(printer, lastPoll.inv, lastPoll.raised,
                                    lastPoll.path_exists, lastPoll.rc,
                                    lastPoll.text)
    /\ lastPoll' = [lastPoll EXCEPT !.polled = TRUE]
    /\ pc' = "conn_done"
    /\ UNCHANGED << extVars, imageVars, usb, fixedVars, loopVars, discSeen, setupVars, printVars,
                    waitVars, exitVars >>

\* WebControlledPrinterRig.is_printer_connected(printer)
WebConnApply ==
    /\ pc = "conn_input"
    /\ conn' = web_is_printer_connected(printer, lastPoll.inv, lastPoll.raised)
    /\ lastPoll' = [lastPoll EXCEPT !.polled = TRUE]
    /\ pc' = "web_conn_done"
    /\ UNCHANGED << extVars, imageVars, usb, fixedVars, loopVars, discSeen, setupVars, printVars,
                    waitVars, exitVars >>

NextConn == ConnApply \/ WebConnApply

SpecConn == InitConn /\ [][NextConn]_vars

\* ------------------------------------------------------------ PrinterTestRig.run
\* run as a whole: the driver installation, the enumeration, then
\* test_printer for each printer of the list in turn.  test_printer is taken
\* in large steps here (registration, image lookup, one step per cycle) and
\* its cycles are not counted, so a printer that stays plugged in is tested
\* for ever.

\* the test_printer state of the step-by-step behaviours, not used by run
testVars ==
    << nImages, loopVars, connVars, setupVars, printVars, waitVars, exitVars,
       imageVars >>

\* the orders in which lsusb can list the devices
Orderings(S) ==
    { s \in [1..Cardinality(S) -> S] : \A x \in S : \E i \in DOMAIN s : s[i] = x }

\* _get_usb_devices: running a missing lsusb raises and the exception is
\* caught, a non-zero exit code of lsusb returns the empty list
_get_usb_devices(tool, rc, plugged) ==
    IF tool = "absent" THEN {}
    ELSE IF rc # 0 THEN {}
    ELSE plugged

\* What is plugged in when run starts: the two printers, and a device the
\* catalog does not know.
RunDevices ==
    Devices \cup
        { [bus |-> "002", device |-> "002", vendor_id |-> "1343", product_id |-> "327b"] }

InitRun ==
    /\ WebOff /\ AuxOff
    /\ pc = "run_install"
    /\ usb \in SUBSET RunDevices
    /\ lsusb \in {"present", "absent"}
    /\ printer = None
    /\ printers = <<>> /\ idx = 0 /\ attempted = {} /\ failures = {}
    /\ failedJobs = 0 /\ exitCode = None
    /\ nImages = 0
    /\ cycle_count = 0 /\ img = 0 /\ attempt = 0 /\ success = FALSE
    /\ conn = FALSE /\ lastPoll = NoPoll /\ discSeen = FALSE
    /\ addCalls = 0 /\ addRc = None
    /\ cmds = <<>> /\ delCalls = 0 /\ queue = FALSE
    /\ imgInputs = None /\ imgResult = "unset"
    /\ printCmds = <<>>
    /\ lpCount = 0 /\ lpEver = FALSE /\ lpRc = None /\ job_id = <<>>
    /\ printResult = FALSE
    /\ attempts = 0 /\ completed = 0
    /\ reported = None /\ exitKind = "running"
    /\ elapsed = 0 /\ polls = 0 /\ jobRc = None /\ jobText = <<>>
    /\ waitResult = FALSE /\ inspected = FALSE

\* if not self.detector.install_printer_drivers(): sys.exit(1)
RunInstall ==
    /\ pc = "run_install"
    /\ \E ok \in BOOLEAN :
        IF ok
        THEN pc' = "run_enumerate" /\ exitCode' = exitCode
        ELSE pc' = "exited" /\ exitCode' = Some(1)
    /\ UNCHANGED << webVars, auxVars, testVars, usb, printer, printers, idx, attempted, failures,
                    failedJobs, lsusb >>

\* printers = self.detector.get_connected_printers()
RunEnumerate ==
    /\ pc = "run_enumerate"
    /\ \E rc \in ExitCodes :
        \E order \in Orderings(get_connected_printers(_get_usb_devices(lsusb, rc, usb))) :
            printers' = order
    /\ pc' = "run_check"
    /\ UNCHANGED << webVars, auxVars, testVars, usb, printer, idx, attempted, failures,
                    failedJobs, lsusb, exitCode >>

\* if not printers: return; else the first printer of the for loop
RunCheck ==
    /\ pc = "run_check"
    /\ IF printers = <<>>
       THEN /\ pc' = "returned"
            /\ exitCode' = Some(0)
            /\ UNCHANGED << idx, printer >>
       ELSE /\ idx' = 1
            /\ printer' = printers[1]
            /\ pc' = "tp_setup"
            /\ UNCHANGED exitCode
    /\ UNCHANGED << webVars, auxVars, testVars, usb, printers, attempted, failures, failedJobs,
                    lsusb >>

\* test_printer: setup_printer_in_cups, lpadmin -p exits with 0 or raises
TpSetup ==
    /\ pc = "tp_setup"
    /\ attempted' = attempted \cup {idx}
    /\ \E rc \in ExitCodes :
        IF rc = 0
        THEN pc' = "tp_images" /\ failures' = failures
        ELSE pc' = "tp_except" /\ failures' = failures \cup {"registration"}
    /\ UNCHANGED << webVars, auxVars, testVars, usb, printer, printers, idx, failedJobs, lsusb,
                    exitCode >>

\* test_printer: get_test_images returns a list or raises
TpImages ==
    /\ pc = "tp_images"
    /\ \E inp \in ImageInputs :
        IF get_test_images(inp) = "raise"
        THEN pc' = "tp_except" /\ failures' = failures \cup {"images"}
        ELSE pc' = "tp_while" /\ failures' = failures
    /\ UNCHANGED << webVars, auxVars, testVars, usb, printer, printers, idx, attempted,
                    failedJobs, lsusb, exitCode >>

\* test_printer: while self.is_printer_connected(printer)
TpWhile ==
    /\ pc = "tp_while"
    /\ \E inv \in {usb, {}}, raised \in Raises, path_exists \in BOOLEAN,
          rc \in ExitCodes, text \in QueueTexts :
        pc' = IF is_printer_connected(printer, inv, raised, path_exists, rc, text)
              THEN "tp_cycle" ELSE "tp_return"
    /\ UNCHANGED << webVars, auxVars, testVars, usb, printer, printers, idx, attempted, failures,
                    failedJobs, lsusb, exitCode >>

\* TpExcept with the exception raised again: run's handler calls sys.exit(1)
TpExcept_Reraise ==
    /\ pc = "tp_except"
    /\ pc' = "exited"
    /\ exitCode' = Some(1)
    /\ UNCHANGED << webVars, auxVars, testVars, usb, printer, printers, idx, attempted, failures,
                    failedJobs, lsusb >>

\* test_printer: except Exception as e: logger.error(...)
TpExcept ==
    /\ pc = "tp_except"
    /\ pc' = "tp_return"
    /\ exitCode' = exitCode
    /\ UNCHANGED << webVars, auxVars, testVars, usb, printer, printers, idx, attempted, failures,
                    failedJobs, lsusb >>

\* test_printer: one cycle.  The check before the image returns on a
\* disconnect; else k of the print_image calls of the retry loop fail.
TpCycle ==
    /\ pc = "tp_cycle"
    /\ \/ /\ \E inv \in {usb, {}}, raised \in Raises, path_exists \in BOOLEAN,
                rc \in ExitCodes, text \in QueueTexts :
              ~is_printer_connected(printer, inv, raised, path_exists, rc, text)
          /\ pc' = "tp_return"
          /\ UNCHANGED failedJobs
       \/ /\ \E inv \in {usb, {}}, raised \in Raises, path_exists \in BOOLEAN,
                rc \in ExitCodes, text \in QueueTexts :
              is_printer_connected(printer, inv, raised, path_exists, rc, text)
          /\ \E k \in 0..max_retries :
              /\ failedJobs + k <= MaxFailed
              /\ failedJobs' = failedJobs + k
          /\ pc' = "tp_while"
    /\ UNCHANGED << webVars, auxVars, testVars, usb, printer, printers, idx, attempted, failures,
                    lsusb, exitCode >>

\* for printer in printers: the next printer, or the end of run
RunNextPrinter ==
    /\ pc = "tp_return"
    /\ IF idx < Len(printers)
       THEN /\ idx' = idx + 1
            /\ printer' = printers[idx + 1]
            /\ pc' = "tp_setup"
            /\ UNCHANGED exitCode
       ELSE /\ pc' = "returned"
            /\ exitCode' = Some(0)
            /\ UNCHANGED << idx, printer >>
    /\ UNCHANGED << webVars, auxVars, testVars, usb, printers, attempted, failures, failedJobs,
                    lsusb >>

RunDriver ==
    \/ RunInstall \/ RunEnumerate \/ RunCheck \/ RunNextPrinter
    \/ TpSetup \/ TpImages \/ TpWhile \/ TpCycle \/ TpExcept

NextRun == RunDriver \/ Plug \/ Unplug

SpecRun == InitRun /\ [][NextRun]_vars

\* run is one thread and every call it makes returns
FairSpecRun == SpecRun /\ WF_vars(RunDriver)

\* ------------------------------------------------------------ web_app
\* The request handlers api_start_test and api_stop_test and the
\* start_continuous_test threads they control.  A handler is one step; a
\* thread takes one step per read of the stop flag, per call that takes
\* time and per emitted event that ends a phase.

\* the printers a start request can name
WebPrinters ==
    get_connected_printers(
        {[bus |-> "001", device |-> "004", vendor_id |-> "04a9", product_id |-> "327b"]})

\* f"test_{printer_info['cups_name']}_{int(time.time())}"
TestId(p, t) == [printer |-> p, time |-> t]

TestIds == { TestId(p, t) : p \in WebPrinters, t \in 0..MaxClock }

\* a thread that was not started; the fields after img are history:
\* the events emitted, the cycles cycle_completed was emitted for, the cycle
\* api_stop_test interrupted (0 for none), whether a print_image call
\* returned with the flag set, whether one was started after that
NoThread ==
    [pc |-> "none", cycle_count |-> 0, img |-> 0, events |-> {},
     completedEv |-> {}, stopCycle |-> 0, retAfterStop |-> FALSE,
     lateStart |-> FALSE]

\* the thread is between cycle_count += 1 and the test after the for loop
InCyclePcs == {"w_for", "w_print_start", "w_print", "w_after_for"}

\* the state of the system apart from the web application and the devices
nonWebVars == << pc, printer, testVars, runVars, auxVars >>

InitWeb ==
    /\ RunOff /\ AuxOff
    /\ pc = "web"
    /\ usb \in SUBSET Devices
    /\ printer = None
    /\ now = 0 /\ test_threads = {}
    /\ stop_flags = [id \in {} |-> FALSE]
    /\ th = [id \in TestIds |-> NoThread]
    /\ nImages = 0
    /\ cycle_count = 0 /\ img = 0 /\ attempt = 0 /\ success = FALSE
    /\ conn = FALSE /\ lastPoll = NoPoll /\ discSeen = FALSE
    /\ addCalls = 0 /\ addRc = None
    /\ cmds = <<>> /\ delCalls = 0 /\ queue = FALSE
    /\ imgInputs = None /\ imgResult = "unset"
    /\ printCmds = <<>>
    /\ lpCount = 0 /\ lpEver = FALSE /\ lpRc = None /\ job_id = <<>>
    /\ printResult = FALSE
    /\ attempts = 0 /\ completed = 0
    /\ reported = None /\ exitKind = "running"
    /\ elapsed = 0 /\ polls = 0 /\ jobRc = None /\ jobText = <<>>
    /\ waitResult = FALSE /\ inspected = FALSE

\* time passes
Tick ==
    /\ now < MaxClock
    /\ now' = now + 1
    /\ UNCHANGED << nonWebVars, usb, test_threads, stop_flags, th >>

\* POST /api/start_test: the 400 answers change nothing; else the flag and
\* the thread are registered under the test id and the thread is started
api_start_test ==
    /\ \E p \in WebPrinters :
        LET test_id == TestId(p, now)
        IN  /\ test_id \notin test_threads
            /\ stop_flags' = [i \in DOMAIN stop_flags \cup {test_id} |->
                                 IF i = test_id THEN FALSE ELSE stop_flags[i]]
            /\ test_threads' = test_threads \cup {test_id}
            /\ th' = [th EXCEPT ![test_id] = [NoThread EXCEPT !.pc = "w_setup"]]
    /\ UNCHANGED << nonWebVars, usb, now >>

\* POST /api/stop_test: stop_flags[test_id]['stop'] = True
api_stop_test ==
    /\ \E test_id \in DOMAIN stop_flags :
        /\ stop_flags' = [stop_flags EXCEPT ![test_id] = TRUE]
        /\ th' = [th EXCEPT ![test_id].stopCycle =
                     IF ~stop_flags[test_id] /\ th[test_id].pc \in InCyclePcs
                     THEN th[test_id].cycle_count ELSE @]
    /\ UNCHANGED << nonWebVars, usb, now, test_threads >>

\* ReadStop on a copy of the flag taken when the thread started
ReadStop_Stale(test_id) == FALSE

\* stop_flag['stop']: stop_flag is the entry of stop_flags itself
ReadStop(test_id) == stop_flags[test_id]

\* a step of the thread test_id that touches nothing but its own state
ThreadStep(test_id, from, new) ==
    /\ th[test_id].pc = from
    /\ th' = [th EXCEPT ![test_id] = new]
    /\ UNCHANGED << nonWebVars, usb, now, test_threads, stop_flags >>

\* lines 55-76: the import, setup_printer_in_cups and the image file, any of
\* which can raise and end the thread; then test_started
WSetup(test_id) ==
    \E ok \in BOOLEAN :
        ThreadStep(test_id, "w_setup",
            IF ok
            THEN [th[test_id] EXCEPT !.pc = "w_while",
                                     !.events = @ \cup {"test_started"}]
            ELSE [th[test_id] EXCEPT !.pc = "w_dead"])

\* while not stop_flag['stop'] ...
WWhile(test_id) ==
    ThreadStep(test_id, "w_while",
        [th[test_id] EXCEPT !.pc = IF ReadStop(test_id) THEN "w_finally"
                                   ELSE "w_conn"])

\* ... and self.is_printer_connected(printer): cycle_count += 1, cycle_started
WConn(test_id) ==
    \E inv \in {usb, {}}, raised \in {"none", "inventory"} :
        LET r == web_is_printer_connected(test_id.printer, inv, raised)
        IN  /\ th[test_id].cycle_count >= MaxWebCycles => ~r
            /\ ThreadStep(test_id, "w_conn",
                   IF r
                   THEN [th[test_id] EXCEPT !.pc = "w_for",
                                            !.cycle_count = @ + 1,
                                            !.img = 1]
                   ELSE [th[test_id] EXCEPT !.pc = "w_finally"])

\* for i, ... in enumerate(test_images): if stop_flag['stop']: break
WFor(test_id) ==
    ThreadStep(test_id, "w_for",
        [th[test_id] EXCEPT !.pc =
            IF th[test_id].img > WebImages THEN "w_after_for"
            ELSE IF ReadStop(test_id) THEN "w_after_for"
            ELSE "w_print_start"])

\* print_started is emitted (an emit that raises leaves the loops) and
\* print_image is called
WPrintStart(test_id) ==
    \E raises \in BOOLEAN :
        ThreadStep(test_id, "w_print_start",
            IF raises
            THEN [th[test_id] EXCEPT !.pc = "w_except"]
            ELSE [th[test_id] EXCEPT !.pc = "w_print",
                                     !.lateStart = @ \/ th[test_id].retAfterStop])

\* print_image returns, print_completed, the sleep, the next image
WPrint(test_id) ==
    ThreadStep(test_id, "w_print",
        [th[test_id] EXCEPT !.pc = "w_for",
                            !.img = @ + 1,
                            !.retAfterStop = @ \/ stop_flags[test_id]])

\* if not stop_flag['stop']: cycle_completed and the sleep
WAfterFor(test_id) ==
    ThreadStep(test_id, "w_after_for",
        IF ~ReadStop(test_id)
        THEN [th[test_id] EXCEPT !.pc = "w_while",
                                 !.completedEv = @ \cup {th[test_id].cycle_count}]
        ELSE [th[test_id] EXCEPT !.pc = "w_while"])

\* except Exception as e: test_error
WExcept(test_id) ==
    ThreadStep(test_id, "w_except",
        [th[test_id] EXCEPT !.pc = "w_finally",
                            !.events = @ \cup {"test_error"}])

\* finally: test_stopped
WFinally(test_id) ==
    ThreadStep(test_id, "w_finally",
        [th[test_id] EXCEPT !.pc = "w_cleanup",
                            !.events = @ \cup {"test_stopped"}])

\* generator.cleanup(): no name generator is defined, the NameError ends the
\* thread before the entries of test_threads and stop_flags are deleted
WCleanup(test_id) ==
    ThreadStep(test_id, "w_cleanup", [th[test_id] EXCEPT !.pc = "w_ended"])

start_continuous_test(test_id) ==
    \/ WSetup(test_id) \/ WWhile(test_id) \/ WConn(test_id) \/ WFor(test_id)
    \/ WPrintStart(test_id) \/ WPrint(test_id) \/ WAfterFor(test_id)
    \/ WExcept(test_id) \/ WFinally(test_id) \/ WCleanup(test_id)

WebThreads == \E test_id \in TestIds : start_continuous_test(test_id)

NextWeb ==
    \/ WebThreads \/ api_start_test \/ api_stop_test \/ Tick \/ Plug \/ Unplug

SpecWeb == InitWeb /\ [][NextWeb]_vars

\* a started thread keeps running: every call it makes returns
FairSpecWeb ==
    SpecWeb /\ \A test_id \in TestIds : WF_vars(start_continuous_test(test_id))

\* The requests of one second: the clock is read by api_start_test only, so
\* with the clock standing still one test is started and followed to its end.
NextOneTest == WebThreads \/ api_start_test \/ api_stop_test \/ Plug \/ Unplug

SpecOneTest == InitWeb /\ [][NextOneTest]_vars

FairSpecOneTest ==
    SpecOneTest /\ \A test_id \in TestIds : WF_vars(start_continuous_test(test_id))

\* ------------------------------------------------------------ device enumeration
\* One line of the lsusb output, by the parts the pattern of
\* _get_linux_usb_devices reads:
\*   Bus <bus> Device <device>: ID <vendor_id>:<product_id> <description>
\* The lines: a catalog printer, the same printer with the device number a
\* replug gives it, a hub the catalog does not know, a line with upper-case
\* ids, a line whose description is missing, and an empty line.
LsusbLines ==
    { [bus |-> "001", device |-> "004", vendor_id |-> "04a9",
       product_id |-> "327b", description |-> "Canon, Inc."],
      [bus |-> "001", device |-> "005", vendor_id |-> "04a9",
       product_id |-> "327b", description |-> "Canon, Inc."],
      [bus |-> "001", device |-> "002", vendor_id |-> "1d6b",
       product_id |-> "0002", description |-> "Linux Foundation 2.0 root hub"],
      [bus |-> "001", device |-> "004", vendor_id |-> "04A9",
       product_id |-> "327B", description |-> "Canon, Inc."],
      [bus |-> "001", device |-> "005", vendor_id |-> "04a9",
       product_id |-> "3302", description |-> ""],
      [bus |-> "", device |-> "", vendor_id |-> "",
       product_id |-> "", description |-> ""] }

\* \d+
IsDigits(s) == s # <<>> /\ \A i \in 1..Len(s) : s[i] \in Digits

\* [0-9a-f]{4}
IsHex4(s) == Len(s) = 4 /\ \A i \in 1..Len(s) : s[i] \in HexDigits

\* re.search(r'Bus (\d+) Device (\d+): ID ([0-9a-f]{4}):([0-9a-f]{4}) (.+)', line)
Matches(line) ==
    /\ IsDigits(Chars(line.bus))
    /\ IsDigits(Chars(line.device))
    /\ IsHex4(Chars(line.vendor_id))
    /\ IsHex4(Chars(line.product_id))
    /\ line.description # ""

\* f"/dev/bus/usb/{bus.zfill(3)}/{device.zfill(3)}", by its two last parts
device_path(bus, device) == <<Zfill(Chars(bus), 3), Zfill(Chars(device), 3)>>

\* the device nodes that can exist
NodeSet ==
    { device_path("001", "004"), device_path("001", "005"),
      device_path("001", "002") }

\* the dict appended for a matching line
DeviceRecord(line) ==
    [bus |-> line.bus, device |-> line.device, vendor_id |-> line.vendor_id,
     product_id |-> line.product_id]

\* _get_linux_usb_devices without the look at the device node
_get_linux_usb_devices_NoNodeCheck(rc, output, existing) ==
    IF rc # 0 THEN {}
    ELSE { DeviceRecord(output[i]) :
            i \in { j \in 1..Len(output) : Matches(output[j]) } }

\* _get_linux_usb_devices that gives up at the first line that does not match
_get_linux_usb_devices_StopAtMismatch(rc, output, existing) ==
    IF rc # 0 THEN {}
    ELSE { DeviceRecord(output[i]) :
            i \in { j \in 1..Len(output) :
                      /\ \A k \in 1..j : Matches(output[k])
                      /\ device_path(output[j].bus, output[j].device) \in existing } }

\* _get_linux_usb_devices.  rc, output: what lsusb returned; existing: the
\* device nodes that exist when the lines are read.
_get_linux_usb_devices(rc, output, existing) ==
    IF rc # 0 THEN {}
    ELSE { DeviceRecord(output[i]) :
            i \in { j \in 1..Len(output) :
                      /\ Matches(output[j])
                      /\ device_path(output[j].bus, output[j].device) \in existing } }

\* the sequences over S of length at most n
SeqUpTo(S, n) == UNION { [1..k -> S] : k \in 0..n }

\* everything of test_printer is at rest
TestOff ==
    /\ nImages = 0
    /\ cycle_count = 0 /\ img = 0 /\ attempt = 0 /\ success = FALSE
    /\ conn = FALSE /\ lastPoll = NoPoll /\ discSeen = FALSE
    /\ addCalls = 0 /\ addRc = None
    /\ cmds = <<>> /\ delCalls = 0 /\ queue = FALSE
    /\ imgInputs = None /\ imgResult = "unset"
    /\ printCmds = <<>>
    /\ lpCount = 0 /\ lpEver = FALSE /\ lpRc = None /\ job_id = <<>>
    /\ printResult = FALSE
    /\ attempts = 0 /\ completed = 0
    /\ reported = None /\ exitKind = "running"
    /\ elapsed = 0 /\ polls = 0 /\ jobRc = None /\ jobText = <<>>
    /\ waitResult = FALSE /\ inspected = FALSE

\* The detector between one enumeration and the polls that follow it: lsusb
\* prints lsLines, the nodes in nodes exist.
InitDetect ==
    /\ TestOff /\ WebOff /\ SimpleOff /\ MacOff
    /\ pc = "det_inventory"
    /\ usb = {}
    /\ printer = None
    /\ printers = <<>> /\ idx = 0 /\ attempted = {} /\ failures = {}
    /\ failedJobs = 0 /\ exitCode = None
    /\ lsusb \in {"present", "absent"}
    /\ lsLines \in SeqUpTo(LsusbLines, MaxLines)
    /\ nodes \in SUBSET NodeSet
    /\ inventory = None /\ found = {} /\ lsRc = None

detFixed == << usb, testVars, webVars, simpleVars, macVars, printers, idx, attempted, failures,
               failedJobs, exitCode, lsusb >>

\* usb_devices = self._get_usb_devices()
DetectInventory ==
    /\ pc = "det_inventory"
    /\ \E rc \in ExitCodes :
        /\ lsRc' = Some(rc)
        /\ inventory' =
             Some(_get_usb_devices(lsusb, rc, _get_linux_usb_devices(rc, lsLines, nodes)))
    /\ pc' = "det_resolve"
    /\ UNCHANGED << detFixed, printer, lsLines, nodes, found >>

\* the loop of get_connected_printers over usb_devices
DetectResolve ==
    /\ pc = "det_resolve"
    /\ found' = get_connected_printers(inventory[1])
    /\ pc' = "det_pick"
    /\ UNCHANGED << detFixed, printer, lsLines, nodes, inventory, lsRc >>

\* run: if not printers: return; else one of the printers is tested
DetectPick ==
    /\ pc = "det_pick"
    /\ IF found = {}
       THEN pc' = "det_none" /\ printer' = printer
       ELSE \E p \in found : printer' = Some(p) /\ pc' = "det_poll"
    /\ UNCHANGED << detFixed, detVars >>

\* the device node of one listed device goes away
NodeVanish ==
    /\ pc \in {"det_poll", "det_polled"}
    /\ \E n \in nodes : nodes' = nodes \ {n}
    /\ UNCHANGED << detFixed, pc, printer, lsLines, inventory, found, lsRc >>

\* the printer is unplugged and plugged in again: the kernel gives it the
\* next device number
Replug ==
    /\ pc \in {"det_poll", "det_polled"}
    /\ \E i \in 1..Len(lsLines) :
        /\ Matches(lsLines[i])
        /\ lsLines[i].device = "004"
        /\ lsLines' = [lsLines EXCEPT ![i].device = "005"]
        /\ nodes' = (nodes \ {device_path(lsLines[i].bus, "004")})
                        \cup {device_path(lsLines[i].bus, "005")}
    /\ UNCHANGED << detFixed, pc, printer, inventory, found, lsRc >>

\* test_printer: self.is_printer_connected(printer)
DetectPoll ==
    /\ pc \in {"det_poll", "det_polled"}
    /\ \E rc \in ExitCodes, path_exists \in BOOLEAN,
          a \in { [rc |-> 0, text |-> <<"idle", "enabled">>],
                  [rc |-> 1, text |-> <<>>] } :
        LET usb_devices ==
                _get_usb_devices(lsusb, rc, _get_linux_usb_devices(rc, lsLines, nodes))
        IN  /\ lsRc' = Some(rc)
            /\ inventory' = Some(usb_devices)
            /\ found' = get_connected_printers(usb_devices)
            /\ conn' = is_printer_connected(printer[1], usb_devices, "none",
                                            path_exists, a.rc, a.text)
    /\ pc' = "det_polled"
    /\ UNCHANGED << usb, webVars, runVars, simpleVars, macVars, printer, lsLines, nodes,
                    nImages,
                    loopVars, lastPoll, discSeen, setupVars, printVars,
                    waitVars, exitVars, imageVars >>

NextDetect ==
    \/ DetectInventory \/ DetectResolve \/ DetectPick
    \/ NodeVanish \/ Replug \/ DetectPoll

SpecDetect == InitDetect /\ [][NextDetect]_vars

\* ------------------------------------------------------------ simple_printer_test.main
\* The queues lpstat -p can list: two photo printers and an office printer.
SimpleQueues == {"Canon_SELPHY_CP1300", "DNP_QW410", "HP_LaserJet"}

\* any(keyword in printer_name.lower()
\*     for keyword in ['qw410', 'canon', 'cp1500', 'selphy'])
IsPhotoPrinter(printer_name) ==
    CASE printer_name = "Canon_SELPHY_CP1300" -> TRUE
      [] printer_name = "DNP_QW410" -> TRUE
      [] printer_name = "HP_LaserJet" -> FALSE

\* get_cups_printers.  rc: the exit code of lpstat -p (an exception counts as
\* a non-zero exit: both return []); listing: queue name -> "absent", "idle"
\* or "printing".
get_cups_printers(rc, listing) ==
    IF rc # 0 THEN {}
    ELSE { q \in DOMAIN listing : listing[q] = "idle" /\ IsPhotoPrinter(q) }

\* new_printers = current_printers - known_printers
new_printers == current_printers \ known_printers

InitSimple ==
    /\ TestOff /\ RunOff /\ WebOff /\ DetectOff /\ MacOff
    /\ usb = {} /\ printer = None
    /\ pc = "s_poll"
    /\ cups \in [SimpleQueues -> {"absent", "idle"}]
    /\ known_printers = {} /\ current_printers = {}
    /\ toPrint = {} /\ submitted = {}

simpleFixed == << usb, printer, testVars, runVars, webVars, detVars, macVars >>

\* a queue appears in CUPS, goes away, starts or ends printing
CupsChange ==
    /\ \E q \in SimpleQueues, st \in {"absent", "idle", "printing"} :
        /\ cups[q] # st
        /\ cups' = [cups EXCEPT ![q] = st]
    /\ UNCHANGED << simpleFixed, pc, known_printers, current_printers, toPrint,
                    submitted >>

\* cups_printers = get_cups_printers(); current_printers = set(cups_printers)
SimplePoll ==
    /\ pc = "s_poll"
    /\ \E rc \in ExitCodes : current_printers' = get_cups_printers(rc, cups)
    /\ pc' = "s_new"
    /\ UNCHANGED << simpleFixed, cups, known_printers, toPrint, submitted >>

\* if new_printers: test_image = create_test_image(); if test_image: for ...
SimpleImage ==
    /\ pc = "s_new"
    /\ IF new_printers = {}
       THEN pc' = "s_disc" /\ toPrint' = toPrint
       ELSE \E test_image \in {"path", "None"} :
                IF test_image = "path"
                THEN toPrint' = new_printers /\ pc' = "s_print"
                ELSE toPrint' = toPrint /\ pc' = "s_update"
    /\ UNCHANGED << simpleFixed, cups, known_printers, current_printers,
                    submitted >>

\* for printer in new_printers: print_to_printer(printer, test_image)
SimplePrint ==
    /\ pc = "s_print"
    /\ IF toPrint = {}
       THEN pc' = "s_update" /\ UNCHANGED << toPrint, submitted >>
       ELSE \E p \in toPrint :
                /\ toPrint' = toPrint \ {p}
                /\ submitted' = submitted \cup {p}
                /\ pc' = pc
    /\ UNCHANGED << simpleFixed, cups, known_printers, current_printers >>

\* known_printers.update(new_printers)
SimpleUpdate ==
    /\ pc = "s_update"
    /\ known_printers' = known_printers \cup new_printers
    /\ pc' = "s_disc"
    /\ UNCHANGED << simpleFixed, cups, current_printers, toPrint, submitted >>

\* the end of an iteration that forgets no printer
SimpleDisconnected_Keep ==
    /\ pc = "s_disc"
    /\ pc' = "s_poll"
    /\ UNCHANGED << simpleFixed, cups, known_printers, current_printers, toPrint,
                    submitted >>

\* disconnected = known_printers - current_printers;
\* known_printers -= disconnected; time.sleep(3)
SimpleDisconnected ==
    /\ pc = "s_disc"
    /\ LET disconnected == known_printers \ current_printers
       IN  /\ known_printers' = known_printers \ disconnected
           /\ submitted' = submitted \ disconnected
    /\ pc' = "s_poll"
    /\ UNCHANGED << simpleFixed, cups, current_printers, toPrint >>

SimpleMain ==
    \/ SimplePoll \/ SimpleImage \/ SimplePrint \/ SimpleUpdate
    \/ SimpleDisconnected

NextSimple == SimpleMain \/ CupsChange

SpecSimple == InitSimple /\ [][NextSimple]_vars

\* main is one thread and every call it makes returns
FairSpecSimple == SpecSimple /\ WF_vars(SimpleMain)

\* ============================================================ macOS inventory
\* What system_profiler SPUSBDataType can print: one block of lines per
\* device, a line by the block it is of, its key and the value after "0x"
\* (an id) or after the key (a manufacturer).  A block starts with the
\* title of the device; of the Product ID, Vendor ID and Manufacturer lines,
\* printed in this order, it has any; a Product ID line may carry an id the
\* pattern of the parser does not match.
MacListings ==
    LET Profile == << [vendor_id |-> "04a9", product_id |-> "327b",
                       manufacturer |-> "Canon"],
                      [vendor_id |-> "1343", product_id |-> "0003",
                       manufacturer |-> "DNP"],
                      [vendor_id |-> "1d6b", product_id |-> "0002",
                       manufacturer |-> "Apple Inc."] >>
        Shapes == [product : {"absent", "listed", "unmatched"},
                   vendor : {"absent", "listed"},
                   manufacturer : {"absent", "listed"}]
        Line(b, key, value) == [block |-> b, key |-> key, value |-> value]
        Block(b, sh) ==
            << Line(b, "title", "") >>
            \o (IF sh.product = "listed"
                THEN << Line(b, "Product ID:", Profile[b].product_id) >>
                ELSE IF sh.product = "unmatched"
                THEN << Line(b, "Product ID:", "327B") >>
                ELSE <<>>)
            \o (IF sh.vendor = "listed"
                THEN << Line(b, "Vendor ID:", Profile[b].vendor_id) >>
                ELSE <<>>)
            \o (IF sh.manufacturer = "listed"
                THEN << Line(b, "Manufacturer:", Profile[b].manufacturer) >>
                ELSE <<>>)
        RECURSIVE Listing(_, _)
        Listing(shapes, b) ==
            IF b > Len(shapes) THEN <<>>
            ELSE Block(b, shapes[b]) \o Listing(shapes, b + 1)
    IN  UNION { { Listing(shapes, 1) : shapes \in [1..n -> Shapes] } :
                n \in 1..MaxBlocks }

\* _get_macos_usb_devices on the lines of the listing: current_device is
\* filled line by line and emptied when a device is appended, never at the
\* start of a block.  A key current_device does not have is None.
_get_macos_usb_devices(lines) ==
    LET Empty == [vendor_id |-> None, product_id |-> None, description |-> None]
        RECURSIVE Loop(_, _, _)
        Loop(rest, current_device, devices) ==
            IF rest = <<>> THEN devices
            ELSE LET line == Head(rest)
                     read ==
                         IF line.key = "Product ID:"
                         THEN IF IsHex4(Chars(line.value))
                              THEN [current_device EXCEPT !.product_id = Some(line.value)]
                              ELSE current_device
                         ELSE IF line.key = "Vendor ID:"
                         THEN IF IsHex4(Chars(line.value))
                              THEN [current_device EXCEPT !.vendor_id = Some(line.value)]
                              ELSE current_device
                         ELSE IF line.key = "Manufacturer:"
                         THEN IF line.value # ""
                              THEN [current_device EXCEPT !.description = Some(line.value)]
                              ELSE current_device
                         ELSE current_device
                 IN  IF read.vendor_id # None /\ read.product_id # None
                     THEN Loop(Tail(rest), Empty,
                               Append(devices,
                                      [bus |-> "001", device |-> "001",
                                       vendor_id |-> read.vendor_id[1],
                                       product_id |-> read.product_id[1],
                                       description |->
                                           IF read.description # None
                                           THEN read.description[1]
                                           ELSE "Unknown Device"]))
                     ELSE Loop(Tail(rest), read, devices)
    IN  Loop(lines, Empty, <<>>)

\* The detector on macOS before its enumeration: system_profiler prints
\* spLines.
InitMac ==
    /\ TestOff /\ RunOff /\ WebOff /\ DetectOff /\ SimpleOff
    /\ usb = {} /\ printer = None
    /\ pc = "mac_inventory"
    /\ spLines \in MacListings
    /\ macDevices = None

\* devices = self._get_macos_usb_devices()
MacInventory ==
    /\ pc = "mac_inventory"
    /\ macDevices' = Some(_get_macos_usb_devices(spLines))
    /\ pc' = "mac_done"
    /\ UNCHANGED << usb, printer, testVars, runVars, webVars, detVars, simpleVars,
                    spLines >>

SpecMac == InitMac /\ [][MacInventory]_vars

\* ============================================================ claims
PrintPcs ==
    { "attempt_head", "retry_cancel", "print_image", "pi_ready1", "pi_reset",
      "pi_ready2", "pi_submit", "wait_loop", "wait_sleep", "pi_return",
      "after_retries" }

\* a cycle is in progress, or was cut short by the return inside the for loop
InCycle ==
    \/ pc \in PrintPcs \cup {"for_head", "for_call", "for_test"}
    \/ pc = "done" /\ exitKind = "mid_return"

\* C1: an image whose print_image calls all fail is attempted exactly
\* max_retries times, never more, and the driver then goes on to the next
\* image of the same cycle: the run does not end and the cycle is not left.
C1_RetryBound ==
    /\ [](attempts <= max_retries)
    /\ []((pc = "after_retries" /\ ~success) => attempts = max_retries)
    /\ [][(pc = "after_retries" /\ pc' # pc) =>
            /\ pc' = "for_head"
            /\ img' = img + 1
            /\ cycle_count' = cycle_count
            /\ exitKind' = "running"]_vars

C1_Witness ==
    /\ pc = "for_call" /\ img = 2
    /\ attempts = max_retries /\ ~success

\* C2: the connectivity check precedes every image, and once a check of
\* test_printer has returned false the driver is at the branch that reads it
\* or has returned: it never is in print_image again.
C2_NoPrintAfterDisconnect ==
    /\ discSeen => pc \in {"while_test", "for_test", "done"}
    /\ pc \in PrintPcs => conn

C2_Witness ==
    /\ pc = "done" /\ exitKind = "mid_return"
    /\ img < nImages /\ cycle_count = 2 /\ lpEver

\* C3: lp is issued only after lpadmin -p returned 0; lpadmin -p is issued at
\* most once; after a non-zero exit code the run is in the exception handler
\* or has ended through it, with no lp issued.
C3_SubmitOnlyAfterAdd ==
    /\ lpEver => addRc = Some(0)
    /\ addCalls <= 1
    /\ pc \in PrintPcs => addRc = Some(0)
    /\ (addRc # None /\ addRc # Some(0)) =>
          /\ ~lpEver
          /\ pc \in {"except", "done"}
          /\ pc = "done" => exitKind = "exception"

C3_Witness ==
    /\ pc = "done" /\ exitKind = "exception"
    /\ addRc = Some(1) /\ addCalls = 1 /\ ~lpEver

\* C4 as stated: at every point the counter equals the number of completed
\* cycles.
C4_CountsCompleted == cycle_count = completed

\* C4 amended: the counter starts at 0, goes up by exactly 1 when a cycle
\* starts and never down: it is the number of completed cycles plus one while
\* a cycle is in progress or was cut short, and that number otherwise.
C4_CountsStarted ==
    /\ cycle_count = 0
    /\ [](cycle_count = completed + (IF InCycle THEN 1 ELSE 0))
    /\ [][cycle_count' = cycle_count
            \/ (cycle_count' = cycle_count + 1 /\ pc = "while_test"
                  /\ pc' = "for_head")]_vars

C4_Witness ==
    /\ pc = "done" /\ exitKind = "mid_return"
    /\ cycle_count = 2 /\ completed = 1

\* C5: whenever test_printer has returned on a disconnect, the cycle count was
\* reported.
C5_ReportsCount ==
    (pc = "done" /\ exitKind \in {"loop_exit", "mid_return"}) =>
        reported = Some(cycle_count)

Registered == addRc = Some(0) /\ nImages > 0

Unplugged ==
    \A d \in usb :
        ~(d.vendor_id = printer.vendor_id /\ d.product_id = printer.product_id)

\* C6: after registration the driver returns from its loop only when a
\* connectivity check returned false; a loop check that returned true starts
\* a further cycle, and every cycle comes back to the loop check or ends in a
\* return; and if the printer stays unplugged from some point on, the driver
\* returns.
C6_LoopsUntilDisconnect ==
    /\ []((pc = "done" /\ exitKind \in {"loop_exit", "mid_return"}) =>
            (~conn /\ discSeen))
    /\ [][(pc = "while_test" /\ conn /\ pc' # pc) =>
            (pc' = "for_head" /\ cycle_count' = cycle_count + 1)]_vars
    /\ (Registered /\ pc \notin {"except", "done"})
            ~> (pc \in {"while_test", "done"})
    /\ (<>[]Unplugged) => <>(pc = "done")

C6_Witness ==
    /\ pc = "done" /\ exitKind = "loop_exit"
    /\ cycle_count = MaxCycles /\ completed = MaxCycles

\* C7: both is_printer_connected functions return true exactly when the
\* inventory read raised nothing and lists a device with the printer's
\* vendor_id and product_id, whatever lpstat said and whichever call raised.
C7_ConnectedIffListed ==
    pc \in {"conn_done", "web_conn_done"} =>
        (conn <=> /\ lastPoll.raised # "inventory"
                  /\ \E d \in lastPoll.inv :
                        /\ d.vendor_id = printer.vendor_id
                        /\ d.product_id = printer.product_id)

C7_Witness ==
    /\ pc = "conn_done" /\ ~conn
    /\ lastPoll.rc = 0 /\ lastPoll.text = <<"idle", "enabled">>
    /\ lastPoll.raised = "none"
    /\ \E d \in lastPoll.inv : d.vendor_id = printer.vendor_id

WaitReturned == pc = "pi_return" /\ polls > 0

HasFailMarker(text) == \E m \in FailMarkers : Contains(text, m)

\* C8 as stated: true only on exit code 0 with the completion marker; false
\* on a failure marker, on a non-zero exit code and on the timeout.
C8_PollOutcome ==
    WaitReturned =>
        /\ waitResult => (jobRc = Some(0) /\ Contains(jobText, "completed"))
        /\ HasFailMarker(jobText) => ~waitResult
        /\ jobRc # Some(0) => ~waitResult
        /\ elapsed >= Timeout => ~waitResult

\* C8 amended: a failure marker yields false when the text has no completion
\* marker; the completion marker is read first.
C8_PollOutcomeAmended ==
    WaitReturned =>
        /\ waitResult <=> (jobRc = Some(0) /\ Contains(jobText, "completed")
                            /\ elapsed < Timeout)
        /\ (HasFailMarker(jobText) /\ ~Contains(jobText, "completed"))
              => ~waitResult
        /\ jobRc # Some(0) => ~waitResult
        /\ elapsed >= Timeout => ~waitResult
        /\ printResult = waitResult

C8_Witness ==
    /\ WaitReturned /\ polls >= 2
    /\ jobRc = Some(0) /\ jobText = <<"aborted">> /\ ~waitResult

\* C9: counting the sleeps only, wait_for_print_completion is over within
\* Timeout + PollInterval of its start and issues at most
\* Timeout / PollInterval status queries, whatever the queries return.
C9_BoundedWait ==
    /\ elapsed <= Timeout + PollInterval
    /\ polls <= Timeout \div PollInterval
    /\ pc = "wait_sleep" => elapsed + PollInterval <= Timeout
    /\ (pc = "wait_loop" /\ elapsed >= Timeout) => polls = Timeout \div PollInterval

C9_Witness ==
    /\ pc = "pi_return" /\ polls = Timeout \div PollInterval
    /\ elapsed = Timeout /\ ~waitResult /\ jobText = <<"pending">>

\* C10: lp exiting 0 with no job id in its output makes print_image return
\* true with no status poll; lp exiting non-zero makes it return false.
C10_SoftSuccess ==
    pc = "pi_return" =>
        /\ (lpRc = Some(0) /\ job_id = <<>>) => (printResult /\ polls = 0)
        /\ (lpRc # None /\ lpRc # Some(0)) => (~printResult /\ polls = 0)

C10_Witness ==
    /\ pc = "pi_return" /\ lpRc = Some(0) /\ job_id = <<>>
    /\ printResult /\ polls = 0

\* ------------------------------------------------------------ C11
\* C11: whenever wait_for_print_completion returns false (a failed status
\* query, a failure marker or the timeout), _check_cups_error_log was called
\* before the return.
C11_FailureInspected == (WaitReturned /\ ~waitResult) => inspected

\* ------------------------------------------------------------ C12
SetupOrder ==
    << "lpadmin -x", "cancel -a", "lpadmin -p", "cupsenable", "cupsaccept" >>

\* setup_printer_in_cups has returned and get_test_images is not yet called
SetupReturned == pc = "get_images"

\* C12: the commands of one setup_printer_in_cups call start with lpadmin -x,
\* cancel -a, lpadmin -p, cupsenable, cupsaccept in that order; whatever
\* lpadmin -x and cancel -a exit with, lpadmin -p is issued before the call
\* ends; cupsenable and cupsaccept are issued only after lpadmin -p exited
\* with 0, and both are issued then; with lpadmin -p exited 0 the only
\* exception test_printer sees is the one get_test_images raises.
C12_SetupOrder ==
    /\ \A i \in 1..Len(cmds) : i <= Len(SetupOrder) => cmds[i].cmd = SetupOrder[i]
    /\ Len(cmds) >= 4 => cmds[3].rc = 0
    /\ pc \in {"except", "done"} => addCalls >= 1
    /\ SetupReturned => Len(cmds) >= 5
    /\ (pc = "except" /\ addRc = Some(0)) => imgResult = "raise"

\* every one of the four unread exit codes is non-zero and the call returned
C12_Witness ==
    /\ SetupReturned
    /\ cmds[1].rc # 0 /\ cmds[2].rc # 0 /\ cmds[4].rc # 0 /\ cmds[5].rc # 0

\* ------------------------------------------------------------ C13
\* the commands _verify_printer_status issued: what follows lpoptions -d
Reissued(cmd) ==
    Cardinality({ i \in 7..Len(cmds) : cmds[i].cmd = cmd })

Query(cmd) == cmds[CHOOSE i \in 7..Len(cmds) : cmds[i].cmd = cmd]

\* C13 as stated: when _verify_printer_status has returned, cupsenable was
\* re-issued once if the text of lpstat -p contains "disabled" and not at
\* all otherwise, cupsaccept was re-issued once if the text of lpstat -a
\* contains "not accepting" and not at all otherwise.
C13_SelfHeal ==
    SetupReturned =>
        /\ Reissued("cupsenable") =
               IF Contains(Query("lpstat -p").text, "disabled") THEN 1 ELSE 0
        /\ Reissued("cupsaccept") =
               IF Contains(Query("lpstat -a").text, "not accepting") THEN 1 ELSE 0

\* C13, amended: when _verify_printer_status has returned, cupsenable was
\* re-issued once if lpstat -p exited with 0 and its text contains
\* "disabled" and not at all otherwise, cupsaccept was re-issued once if
\* lpstat -a exited with 0 and its text contains "not accepting" and not at
\* all otherwise; and no command of the verification ends the run with an
\* exception.
C13_SelfHealAmended ==
    /\ SetupReturned =>
        /\ Reissued("lpstat -p") = 1 /\ Reissued("lpstat -a") = 1
        /\ Reissued("cupsenable") =
               IF /\ Query("lpstat -p").rc = 0
                  /\ Contains(Query("lpstat -p").text, "disabled")
               THEN 1 ELSE 0
        /\ Reissued("cupsaccept") =
               IF /\ Query("lpstat -a").rc = 0
                  /\ Contains(Query("lpstat -a").text, "not accepting")
               THEN 1 ELSE 0
    /\ Len(cmds) >= 6 => pc \notin {"except", "done"}

\* both self-heals ran, and both exited with a non-zero code
C13_Witness ==
    /\ SetupReturned
    /\ Reissued("cupsenable") = 1 /\ Reissued("cupsaccept") = 1
    /\ \A i \in 7..Len(cmds) :
           cmds[i].cmd \in {"cupsenable", "cupsaccept"} => cmds[i].rc # 0

\* ------------------------------------------------------------ C14
\* C14: once lpadmin -p has exited with 0 the queue exists, and from then on
\* no step of test_printer issues lpadmin -x or removes the queue, up to and
\* including its return.
C14_QueueKept ==
    [][ /\ addRc' = Some(0) => queue'
        /\ addRc = Some(0) => delCalls' = delCalls ]_vars

\* test_printer returned after the disconnect, the queue is still there
C14_Witness ==
    /\ pc = "done" /\ exitKind = "loop_exit" /\ cycle_count >= 1
    /\ addRc = Some(0) /\ queue /\ delCalls = 1

\* ------------------------------------------------------------ C19
\* no local file at any searched path and no successful download
Unresolved(inp) == ~inp.local /\ ~(inp.url_set /\ inp.download_ok)

\* C19: when get_test_images finds neither a local file nor a successful
\* download it raises, and from then on test_printer is on its way to the
\* exception handler or has returned through it, with no lp command issued
\* and no cycle started.
C19_NoImageNoPrint ==
    (imgInputs # None /\ Unresolved(imgInputs[1])) =>
        /\ imgResult = "raise"
        /\ pc \in {"images_ret", "except", "done"}
        /\ pc = "done" => exitKind = "exception"
        /\ ~lpEver /\ lpCount = 0
        /\ cycle_count = 0

\* the download failed and test_printer has returned
C19_Witness ==
    /\ pc = "done"
    /\ imgInputs = Some([local |-> FALSE, url_set |-> TRUE, download_ok |-> FALSE])
    /\ addRc = Some(0)

\* ------------------------------------------------------------ C15
\* C15: when run has detected two printers, lpadmin -p for the second one is
\* eventually issued, whether or not the first one is ever unplugged.
C15_SecondStarted == (Len(printers) = 2) ~> (2 \in attempted)

\* ------------------------------------------------------------ C17
\* C17: a failed lpadmin -p, a get_test_images that raises and failed
\* print_image calls never end the process with a non-zero exit code: the
\* process exits non-zero only before the first test_printer call; the
\* exception handler of test_printer returns, and after a return run takes
\* the next printer of the list.
C17_FailuresContained ==
    [][ /\ (failures' # {} \/ failedJobs' > 0) => exitCode' \in {None, Some(0)}
        /\ exitCode' = Some(1) => attempted' = {}
        /\ (pc = "tp_except" /\ pc' # pc) => pc' = "tp_return"
        /\ (pc = "tp_return" /\ pc' # pc /\ idx < Len(printers)) =>
               /\ pc' = "tp_setup"
               /\ idx' = idx + 1
               /\ printer' = printers[idx + 1] ]_vars

\* run has returned after two test_printer calls: in the first a whole retry
\* loop of prints failed, the second ended in the exception handler
C17_Witness ==
    /\ pc = "returned" /\ exitCode = Some(0)
    /\ Len(printers) = 2 /\ attempted = {1, 2}
    /\ failures # {}
    /\ failedJobs >= max_retries

\* ------------------------------------------------------------ C18
\* C18: when lsusb is absent, the process ends with a non-zero exit code.
C18_ExitOnAbsentTool ==
    (lsusb = "absent" /\ pc \in {"returned", "exited"}) => exitCode = Some(1)

\* ------------------------------------------------------------ C16
\* the thread of test_id was started and has not ended
Alive(test_id) == th[test_id].pc \notin {"none", "w_dead", "w_ended"}

\* C16: no two start_continuous_test threads are alive for the same printer.
C16_OneDriverPerPrinter ==
    \A a, b \in TestIds :
        (Alive(a) /\ Alive(b) /\ a.printer = b.printer) => a = b

\* ------------------------------------------------------------ C20
\* test_started was emitted for test_id
Running(test_id) == "test_started" \in th[test_id].events

\* api_stop_test has set the flag of test_id
Stopped(test_id) == test_id \in DOMAIN stop_flags /\ stop_flags[test_id]

\* C20: in every thread, no print_image call is started after one returned
\* with the stop flag set; cycle_completed is never emitted for the cycle
\* that was in progress when api_stop_test set the flag; and a running test
\* whose flag is set eventually emits test_stopped.
C20_StopBetweenIterations ==
    /\ [](\A test_id \in TestIds :
            /\ ~th[test_id].lateStart
            /\ th[test_id].stopCycle # 0 =>
                   th[test_id].stopCycle \notin th[test_id].completedEv)
    /\ \A test_id \in TestIds :
           (Running(test_id) /\ Stopped(test_id)) ~>
               ("test_stopped" \in th[test_id].events)

\* a print_image call was in flight when the flag was set, it has returned
\* and the test has stopped after that
C20_Witness ==
    \E test_id \in TestIds :
        /\ th[test_id].retAfterStop
        /\ th[test_id].stopCycle # 0
        /\ "test_stopped" \in th[test_id].events

\* ------------------------------------------------------------ C21
\* the identity of a descriptor
Identity(p) == <<p.vendor_id, p.product_id>>

\* C21: a device whose vendor:product pair is not a key of the catalog
\* resolves to no descriptor; the list run gets from get_connected_printers
\* holds descriptors of catalog identities only and is empty when no plugged
\* device is in the catalog; with an empty list run issues no lpadmin -p.
C21_UnknownNotResolved ==
    [][ /\ \A d \in RunDevices \cup AllDevices :
            vendor_product(d) \notin SUPPORTED_PRINTERS
                => _create_printer_info(d) = {}
        /\ (pc = "run_enumerate" /\ pc' = "run_check") =>
            /\ \A i \in DOMAIN printers' :
                   Identity(printers'[i]) \in SUPPORTED_PRINTERS
            /\ (\A d \in usb : vendor_product(d) \notin SUPPORTED_PRINTERS)
                   => printers' = <<>>
        /\ (pc' = "returned" /\ printers' = <<>>)
               => attempted' = {} /\ addCalls' = 0 ]_vars

\* run has returned with exit code 0 and without a registration while lsusb
\* is there and the only device plugged in is one the catalog does not know
C21_Witness ==
    /\ pc = "returned" /\ exitCode = Some(0)
    /\ lsusb = "present"
    /\ usb # {} /\ \A d \in usb : vendor_product(d) \notin SUPPORTED_PRINTERS
    /\ printers = <<>> /\ attempted = {}

\* ------------------------------------------------------------ C22
\* the first index of c in s, 0 when there is none
RECURSIVE IndexOf(_, _)
IndexOf(s, c) ==
    IF s = <<>> THEN 0
    ELSE IF Head(s) = c THEN 1
    ELSE IF IndexOf(Tail(s), c) = 0 THEN 0
    ELSE 1 + IndexOf(Tail(s), c)

\* URI validation: the scheme is "usb", the authority is empty, the path has
\* at least two segments.  A URI is scheme ":" ["//" authority] path, and the
\* authority ends at the next "/".
ValidUri(uri) ==
    LET scheme == SubSeq(uri, 1, IndexOf(uri, ":") - 1)
        rest == SubSeq(uri, IndexOf(uri, ":") + 1, Len(uri))
        hasAuthority == Len(rest) >= 2 /\ SubSeq(rest, 1, 2) = <<"/", "/">>
        after == SubSeq(rest, 3, Len(rest))
        authority ==
            IF ~hasAuthority THEN <<>>
            ELSE IF IndexOf(after, "/") = 0 THEN after
            ELSE SubSeq(after, 1, IndexOf(after, "/") - 1)
        path ==
            IF ~hasAuthority THEN rest
            ELSE SubSeq(after, Len(authority) + 1, Len(after))
        segments ==
            Cardinality({ k \in 1..Len(path) :
                            path[k] # "/" /\ (k = 1 \/ path[k - 1] = "/") })
    IN  /\ scheme = <<"u", "s", "b">>
        /\ authority = <<>>
        /\ segments >= 2

\* C22: the device URI of every descriptor the resolver has returned passes
\* URI validation.
C22_UriValidated == \A p \in found : ValidUri(p.device_uri)

\* ------------------------------------------------------------ C23
\* C23: the queue name of a descriptor is "prig_" followed by the catalog
\* model name in lower case with every space replaced by an underscore,
\* whatever bus and device number the record has; 04a9:327b gets
\* prig_canon_selphy_cp1300, and two different catalog entries get different
\* queue names.
C23_QueueName ==
    /\ cups_name(Catalog(<<"04a9", "327b">>).name) =
           <<"p", "r", "i", "g", "_", "c", "a", "n", "o", "n", "_", "s", "e",
             "l", "p", "h", "y", "_", "c", "p", "1", "3", "0", "0">>
    /\ \A vp1, vp2 \in SUPPORTED_PRINTERS :
           vp1 # vp2 =>
               cups_name(Catalog(vp1).name) # cups_name(Catalog(vp2).name)
    /\ \A vp \in SUPPORTED_PRINTERS :
           LET name == Chars(Catalog(vp).name)
               queue_name == cups_name(Catalog(vp).name)
           IN  /\ Len(queue_name) = 5 + Len(name)
               /\ \A i \in 1..Len(name) :
                      queue_name[5 + i] =
                          IF name[i] = " " THEN "_" ELSE LowerChar(name[i])
    /\ \A p \in found \cup { printer[i] : i \in DOMAIN printer } :
           p.cups_name = cups_name(Catalog(Identity(p)).name)

\* after a replug the enumeration returns a descriptor with another device
\* number than the one picked before, and with the same queue name
C23_Witness ==
    /\ pc = "det_polled" /\ printer # None
    /\ \E p \in found :
           /\ p.usb_device # printer[1].usb_device
           /\ Identity(p) = <<"04a9", "327b">>
           /\ p.cups_name = printer[1].cups_name
           /\ p.cups_name = cups_name("Canon SELPHY CP1300")

\* ------------------------------------------------------------ C24
\* a step in which _get_usb_devices was called and has returned
InventoryRead ==
    /\ pc \in {"det_inventory", "det_poll", "det_polled"}
    /\ pc' \in {"det_resolve", "det_polled"}
    /\ lsLines' = lsLines /\ nodes' = nodes

ListedAs(p) ==
    { i \in 1..Len(lsLines) :
        /\ Matches(lsLines[i])
        /\ <<lsLines[i].vendor_id, lsLines[i].product_id>> = Identity(p) }

\* C25: every record an inventory read returns is of a device whose node
\* /dev/bus/usb/<bus>/<device> exists when the lines are read; so when no
\* line that lists the printer under test has its node, the
\* is_printer_connected call of that poll returns false.
C25_NodeMustExist ==
    [][ InventoryRead =>
          /\ \A d \in inventory'[1] : device_path(d.bus, d.device) \in nodes
          /\ ( /\ pc' = "det_polled"
               /\ \A i \in ListedAs(printer[1]) :
                      device_path(lsLines[i].bus, lsLines[i].device) \notin nodes )
                 => conn' = FALSE ]_vars

\* lsusb has exited with 0 and still lists the printer under test, the node
\* of that line is gone, and the poll has reported the printer as not
\* connected
C25_Witness ==
    /\ pc = "det_polled" /\ lsusb = "present" /\ lsRc = Some(0)
    /\ ListedAs(printer[1]) # {}
    /\ \A i \in ListedAs(printer[1]) :
           device_path(lsLines[i].bus, lsLines[i].device) \notin nodes
    /\ inventory = Some({}) /\ conn = FALSE

\* ------------------------------------------------------------ C26
\* PrinterInfo.__eq__: the dataclass compares the fields, all of them, in
\* the order of their declaration
PrinterInfo_eq(a, b) ==
    LET fields == <<"name", "model", "vendor", "device_uri", "cups_name",
                    "ppd_file", "usb_device", "vendor_id", "product_id">>
    IN  \A i \in 1..Len(fields) : a[fields[i]] = b[fields[i]]

\* C26: the descriptor the driver holds and a descriptor a later enumeration
\* returns compare equal exactly when their (vendor_id, product_id) pairs are
\* equal.
C26_EqualByIdentity ==
    \A p \in found, q \in { printer[i] : i \in DOMAIN printer } :
        PrinterInfo_eq(p, q) <=> Identity(p) = Identity(q)

\* ------------------------------------------------------------ C27
\* the keys of SUPPORTED_PRINTERS in simple_printer_test.py
simple_SUPPORTED_PRINTERS ==
    { <<"04a9", "327b">>, <<"04a9", "3302">>, <<"04a9", "327a">>,
      <<"1343", "0003">>, <<"1452", "9201">> }

\* C27: the catalog has exactly five entries; each key is a pair of four
\* lower-case hexadecimal digits; three entries are Canon SELPHY models under
\* the vendor id 04a9 and two are DNP models; the driver reference of every
\* entry, and of every descriptor resolved from it, is "raw".
C27_CatalogShape ==
    /\ Cardinality(SUPPORTED_PRINTERS) = 5
    /\ simple_SUPPORTED_PRINTERS = SUPPORTED_PRINTERS
    /\ \A vp \in SUPPORTED_PRINTERS :
           /\ IsHex4(Chars(vp[1])) /\ IsHex4(Chars(vp[2]))
           /\ Catalog(vp).ppd = "raw"
           /\ Catalog(vp).vendor \in {"Canon", "DNP"}
    /\ LET canon ==
               { vp \in SUPPORTED_PRINTERS : Catalog(vp).vendor = "Canon" }
           selphy ==
               <<"C", "a", "n", "o", "n", " ", "S", "E", "L", "P", "H", "Y">>
       IN  /\ Cardinality(canon) = 3
           /\ \A vp \in canon :
                  /\ vp[1] = "04a9"
                  /\ SubSeq(Chars(Catalog(vp).name), 1, Len(selphy)) = selphy
    /\ Cardinality({ vp \in SUPPORTED_PRINTERS : Catalog(vp).vendor = "DNP" }) = 2
    /\ \A p \in found : p.ppd_file = "raw" /\ Identity(p) \in SUPPORTED_PRINTERS

\* an enumeration has resolved a listed Canon printer from its catalog entry
C27_Witness ==
    /\ pc = "det_pick"
    /\ \E p \in found :
           /\ p.ppd_file = "raw" /\ p.vendor = "Canon"
           /\ p.name = Catalog(Identity(p)).name

\* ------------------------------------------------------------ C28
\* C28: a printer that is available in a poll and was not known before it
\* gets a print job: an lp -d is run for it in that iteration or in a later
\* one, unless a later poll no longer finds it available.
C28_NewPrinterPrinted ==
    \A p \in SimpleQueues :
        (pc = "s_new" /\ p \in new_printers)
            ~> (p \in submitted \/ (pc = "s_new" /\ p \notin current_printers))

\* ------------------------------------------------------------ C29
\* C29: within one cycle a print_image call is for the image the for loop
\* stands at; the loop moves from an image to the next one only, and only
\* after at least one print_image call for it; it goes back to the first
\* image only when a new cycle starts; a cycle is completed only when the
\* loop is past the last image.
C29_ImagesInOrder ==
    [][ /\ attempts' > attempts =>
            /\ pc = "print_image"
            /\ img' = img /\ img \in 1..nImages
        /\ img' # img =>
            \/ /\ pc = "after_retries"
               /\ cycle_count' = cycle_count
               /\ img' = img + 1 /\ attempts >= 1
            \/ /\ pc = "while_test"
               /\ cycle_count' = cycle_count + 1
               /\ img' = 1
        /\ completed' # completed =>
            img = nImages + 1 /\ img' = img ]_vars

\* the second image of a cycle is being printed after the retry loop of the
\* first image has ended
C29_Witness ==
    /\ pc = "pi_return" /\ nImages = 2
    /\ img = 2 /\ attempts >= 1

\* ------------------------------------------------------------ C30
\* C30: when the retry loop of an image ends with success, the number of
\* print_image calls for that image in this cycle is the number of failed
\* attempts before the successful one plus one, and at most max_retries;
\* after a successful attempt no print_image call is made until the loop has
\* gone on to another image.
C30_StopAtFirstSuccess ==
    [][ /\ (pc' = "after_retries" /\ success') =>
            /\ attempts' = attempt' + 1
            /\ attempts' <= max_retries
        /\ (success /\ attempts' # attempts) =>
            /\ pc = "for_test"
            /\ attempts' = 0 /\ ~success' ]_vars

\* the second attempt for an image has succeeded and the retry loop has
\* ended after two print_image calls
C30_Witness ==
    /\ pc = "after_retries" /\ success
    /\ attempt = 1 /\ attempts = 2

\* ------------------------------------------------------------ C31
\* C31: when print_image is called for the first attempt of an image, no
\* cancel -a has been issued since the for loop came to that image; when it
\* is called for a retry, exactly one cancel -a for the queue has been issued
\* since the failed attempt before it returned.
C31_CancelBetweenAttempts ==
    [][ (pc = "print_image" /\ attempts' = attempts + 1) =>
            IF attempts = 0
            THEN attempt = 0 /\ printCmds = <<>>
            ELSE /\ attempt = attempts
                 /\ Len(printCmds) = 1 /\ printCmds[1].cmd = "cancel -a" ]_vars

\* the third attempt for an image is about to start, after two failed
\* attempts and the cancel that followed the second
C31_Witness ==
    /\ pc = "print_image" /\ attempt = 2 /\ attempts = 2
    /\ Len(printCmds) = 1 /\ printCmds[1].cmd = "cancel -a"

\* ------------------------------------------------------------ C32
\* C32: the job id print_image hands to wait_for_print_completion is one
\* word, the one the spooler printed after "request id is".
C32_JobIdIsToken ==
    (pc \in {"wait_loop", "wait_sleep"} /\ job_id # <<>>) =>
        /\ Len(job_id) = 1
        /\ job_id[1] = "prig-12"

\* ------------------------------------------------------------ C33
\* C33: on the same printer, the same inventory result and the same lpstat
\* answer (a raising inventory read and a raising or failing lpstat included)
\* PrinterTestRig.is_printer_connected and
\* WebControlledPrinterRig.is_printer_connected return the same boolean.
C33_SamePredicate ==
    pc \in {"conn_done", "web_conn_done"} =>
        /\ conn = is_printer_connected(printer, lastPoll.inv, lastPoll.raised,
                                       lastPoll.path_exists, lastPoll.rc,
                                       lastPoll.text)
        /\ conn = web_is_printer_connected(printer, lastPoll.inv,
                                           lastPoll.raised)

\* the web predicate has returned false on an inventory that lists another
\* printer of the same vendor, with lpstat reporting the queue idle and
\* enabled
C33_Witness ==
    /\ pc = "web_conn_done" /\ ~conn
    /\ lastPoll.raised = "none"
    /\ lastPoll.rc = 0 /\ lastPoll.text = <<"idle", "enabled">>
    /\ \E d \in lastPoll.inv :
           /\ d.vendor_id = printer.vendor_id
           /\ vendor_product(d) \in SUPPORTED_PRINTERS

\* ------------------------------------------------------------ C34
\* C34: a test whose thread has ended is a key of neither test_threads nor
\* stop_flags; so with no thread alive test_threads is empty and
\* update_printer_status reports 'idle'.
C34_EndedTestRemoved ==
    /\ \A test_id \in TestIds :
           th[test_id].pc \in {"w_dead", "w_ended"} =>
               /\ test_id \notin test_threads
               /\ test_id \notin DOMAIN stop_flags
    /\ (\A test_id \in TestIds : ~Alive(test_id)) => test_threads = {}

\* ---- C35
\* print_image issues no submit command for a missing image file, nor for a
\* queue that is not ready (a status with neither 'idle' nor 'enabled', or
\* a failing status query) both before and after the reset: it then returns
\* false with zero submissions.  A submission follows a status query that
\* found the queue ready, and a call resets the queue at most once: the
\* reset is entered from the first readiness check only, and the log of a
\* call holds at most one disable command.
C35_NoSubmitUnlessReady ==
    [][ LET NotReady(e) ==
                \/ e.rc # 0
                \/ /\ ~Contains(e.text, "idle")
                   /\ ~Contains(e.text, "enabled")
            Disables(log) == { i \in 1..Len(log) : log[i].cmd = "cupsdisable" }
        IN  /\ lpCount' > lpCount =>
                /\ printCmds[1].cmd = "exists" /\ printCmds[1].text = <<"True">>
                /\ printCmds[Len(printCmds)].cmd = "lpstat -p"
                /\ ~NotReady(printCmds[Len(printCmds)])
            /\ (pc = "print_image" /\ pc' # pc /\ printCmds'[1].text = <<"False">>) =>
                pc' = "pi_return" /\ ~printResult' /\ lpCount' = 0
            /\ (pc = "pi_ready1" /\ pc' # pc /\ NotReady(printCmds'[Len(printCmds')])) =>
                pc' = "pi_reset" /\ lpCount' = 0
            /\ (pc = "pi_ready2" /\ pc' # pc /\ NotReady(printCmds'[Len(printCmds')])) =>
                /\ Cardinality(Disables(printCmds)) = 1
                /\ pc' = "pi_return" /\ ~printResult' /\ lpCount' = 0
            /\ (pc' = "pi_reset" /\ pc' # pc) => pc = "pi_ready1"
            /\ (pc' = "pi_ready1" /\ pc' # pc) => pc = "print_image"
            /\ Cardinality(Disables(printCmds')) <= 1 ]_vars

\* print_image has returned false without a submission after a reset and a
\* second status query that failed
C35_Witness ==
    /\ pc = "pi_return" /\ lpCount = 0 /\ ~printResult
    /\ Len(printCmds) = 2 /\ printCmds[2].cmd = "lpstat -p" /\ printCmds[2].rc # 0

\* ---- C37
\* _reset_printer never leaves the queue disabled: in the log of a call,
\* every disable command is followed by an enable command and, after that,
\* an accept command (all three are issued for printer.cups_name), whatever
\* exit codes the commands of the reset return.
C37_DisableThenEnable ==
    \A i \in 1..Len(printCmds) :
        printCmds[i].cmd = "cupsdisable" =>
            \E j \in (i + 1)..Len(printCmds) :
                /\ printCmds[j].cmd = "cupsenable"
                /\ \E k \in (j + 1)..Len(printCmds) : printCmds[k].cmd = "cupsaccept"

\* the reset has returned after a cancel and a disable command that failed
C37_Witness ==
    /\ pc = "pi_ready2"
    /\ \E i \in 1..Len(printCmds) : printCmds[i].cmd = "cancel -a" /\ printCmds[i].rc # 0
    /\ \E i \in 1..Len(printCmds) : printCmds[i].cmd = "cupsdisable" /\ printCmds[i].rc # 0

\* ---- C36
\* In simple_printer_test.main, after every completed poll iteration the set
\* of known printers equals the set of printers available in that poll.
\* Hence the printers a poll finds new are those that were not available in
\* the poll before (one that disappeared and reappears is new again), and a
\* print goes to a printer that is not known and has not been printed to
\* since it was last seen to be gone.
C36_KnownIsAvailable ==
    /\ [](pc = "s_poll" => known_printers = current_printers)
    /\ [][ pc = "s_poll" /\ pc' = "s_new" =>
               new_printers' = current_printers' \ current_printers ]_vars
    /\ [][ \A p \in toPrint \ toPrint' :
               p \notin known_printers /\ p \notin submitted ]_vars

\* an iteration has completed with a printer available, known and printed to
C36_Witness ==
    /\ pc = "s_poll"
    /\ known_printers # {} /\ known_printers = current_printers
    /\ submitted = known_printers

\* ---- C38
\* Every device record of the macOS inventory parser pairs a vendor id and a
\* product id read from one and the same device block of the listing, for
\* every listing, those with a block that carries only one of the two ids
\* included.
C38_IdsOfOneBlock ==
    macDevices # None =>
        \A i \in 1..Len(macDevices[1]) :
            \E v, p \in 1..Len(spLines) :
                /\ spLines[v].block = spLines[p].block
                /\ spLines[v].key = "Vendor ID:"
                /\ spLines[v].value = macDevices[1][i].vendor_id
                /\ spLines[p].key = "Product ID:"
                /\ spLines[p].value = macDevices[1][i].product_id

====
